---------------------------- MODULE Spec2Model ----------------------------
(***************************************************************************)
(* Twenty Questions: the game server's request handlers (server/routes.ts, *)
(* kept in src/unnamed/part_005), the in-memory session store (MemStorage) *)
(* and the LLM-backed helpers (server/openai.ts, server/gemini.ts).        *)
(*                                                                         *)
(* A handler action is one whole request, from its validation to its       *)
(* response.  What an LLM call yields is an input of the action (a reply,  *)
(* or a failure of the call).  Where requests overlap, a handler is two    *)
(* steps: up to its await of the LLM call, and from the reply on.          *)
(*                                                                         *)
(* The browser client (EnhancedGameContainer, kept in                      *)
(* src/unnamed/part_003, and components/LLMvsLLMMode.tsx) sends the        *)
(* requests and keeps the running statistics.                              *)
(***************************************************************************)
EXTENDS Integers, Sequences, FiniteSets, TLC

VARIABLES
    store,                  \* MemStorage.gameSessions: session id -> GameSession
    currentGameSessionId,   \* routes.ts: let currentGameSessionId
    now,                    \* Date.now(), in milliseconds
    nodeEnv,                \* process.env.NODE_ENV
    response,               \* the response to the last request handled
    playedMs,               \* history: clock time the current session spent unpaused
    gameState,              \* EnhancedGameContainer: const [gameState, setGameState]
    finalGuessMode,         \* EnhancedGameContainer: const [finalGuessMode, setFinalGuessMode]
    llmMode,                \* the state of the LLMvsLLMMode component, when mounted
    games,                  \* history: the games that ended, in order
    inflight                \* the requests awaiting their LLM call

vars == <<store, currentGameSessionId, now, nodeEnv, response, playedMs,
          gameState, finalGuessMode, llmMode, games, inflight>>

-----------------------------------------------------------------------------
(* Bounds of the model and constants of the program.                       *)

\* The question budget of a session.
MaxQuestions == 20

\* Math.floor((currentTime - session.startTime) / 1000)
MsPerSecond == 1000

\* The clock stops advancing at StartClock + MaxTicks * TickMs.
MaxTicks == 2

\* How far one Tick advances the clock.
TickMs == 1500

\* AskQuestion requests the environment sends to one llm-asks (v2) session.
MaxDirectAsks == 1

\* Questions the environment sends to one game when games are restarted.
QuestionsPerGame == 2

\* Date.now() when the server starts.
StartClock == 1000

\* The longest secret word the judged games are played with.
MaxWordLen == 3

-----------------------------------------------------------------------------
(* JavaScript values.                                                      *)

\* null (currentGameSessionId) and undefined (a missing field or argument).
Null == "<null>"
Undefined == "<undefined>"

\* An optional number (pauseTime?: number): <<>> is undefined, <<n>> is n.
None == <<>>
Some(n) == <<n>>

\* JavaScript truthiness of an optional number: defined and not 0.
TruthyNumber(opt) == opt # None /\ opt[1] # 0

\* JavaScript truthiness of a string-or-undefined value.
TruthyString(s) == s # Undefined /\ s # Null /\ s # ""

UpperCaseLetters == "ABCDEFGHIJKLMNOPQRSTUVWXYZ"
LowerCaseLetters == "abcdefghijklmnopqrstuvwxyz"

\* The characters String.prototype.trim removes (those the model's texts use).
IsWhiteSpace(c) == c \in {" ", "\t", "\n"}

CharAt(s, i) == SubSeq(s, i, i)

\* One character of String.prototype.toLowerCase.
lowerCaseOf ==
    [c \in { CharAt(UpperCaseLetters, i) : i \in 1..Len(UpperCaseLetters) } |->
        CharAt(LowerCaseLetters,
               CHOOSE i \in 1..Len(UpperCaseLetters) : CharAt(UpperCaseLetters, i) = c)]

LowerChar(c) == IF c \in DOMAIN lowerCaseOf THEN lowerCaseOf[c] ELSE c

RECURSIVE toLowerCase(_)
toLowerCase(s) ==
    IF Len(s) = 0 THEN ""
    ELSE LowerChar(CharAt(s, 1)) \o toLowerCase(SubSeq(s, 2, Len(s)))

RECURSIVE trimStart(_)
trimStart(s) ==
    IF Len(s) > 0 /\ IsWhiteSpace(CharAt(s, 1))
    THEN trimStart(SubSeq(s, 2, Len(s)))
    ELSE s

RECURSIVE trimEnd(_)
trimEnd(s) ==
    IF Len(s) > 0 /\ IsWhiteSpace(CharAt(s, Len(s)))
    THEN trimEnd(SubSeq(s, 1, Len(s) - 1))
    ELSE s

\* String.prototype.trim
trim(s) == trimEnd(trimStart(s))

\* String.prototype.includes
includes(s, w) ==
    \E i \in 1..(Len(s) - Len(w) + 1) : SubSeq(s, i, i + Len(w) - 1) = w

-----------------------------------------------------------------------------
(* What an LLM call yields: a failure of the call (a network error, or a    *)
(* reply the helper cannot parse: its catch block runs), or a reply.  A    *)
(* text reply carries its content; a JSON reply carries the fields of the  *)
(* parsed object.                                                          *)

LLMFailure == [ok |-> FALSE]
TextReply(content) == [ok |-> TRUE, content |-> content]
WordReply(word, category, difficulty, hints) ==
    [ok |-> TRUE, word |-> word, category |-> category,
     difficulty |-> difficulty, hints |-> hints]
JudgeReply(correct) == [ok |-> TRUE, correct |-> correct]

\* a || b on strings
OrElse(a, b) == IF TruthyString(a) THEN a ELSE b

\* openai.ts: the fallback table of selectRandomWord
fallbackWords ==
    [animal  |-> <<"dog", "cat", "elephant", "tiger", "penguin">>,
     place   |-> <<"beach", "mountain", "park", "library", "school">>,
     object  |-> <<"chair", "computer", "bicycle", "piano", "book">>,
     food    |-> <<"pizza", "apple", "chocolate", "bread", "coffee">>,
     person  |-> <<"teacher", "doctor", "athlete", "singer", "artist">>,
     concept |-> <<"love", "freedom", "education", "creativity", "justice">>]

categories == <<"animal", "place", "object", "food", "person", "concept">>

\* openai.ts selectRandomWord(options).  llm is what the chat completion
\* yields; rnd (0-based) is what Math.floor(Math.random() * length) yields,
\* taken modulo the length of the list it indexes.
selectRandomWord(options, llm, rnd) ==
    LET category   == OrElse(options.category,
                             categories[(rnd % Len(categories)) + 1])
        difficulty == OrElse(options.difficulty, "medium")
    IN
    IF llm.ok /\ TruthyString(llm.word)
    THEN [word       |-> trim(toLowerCase(llm.word)),
          category   |-> OrElse(llm.category, category),
          difficulty |-> OrElse(llm.difficulty, difficulty),
          hints      |-> IF llm.hints # None THEN llm.hints
                         ELSE Some(<<"No hints available">>)]
    ELSE
        LET actualCategory   == OrElse(options.category, "object")
            actualDifficulty == OrElse(options.difficulty, "medium")
            validCategory    == IF actualCategory \in DOMAIN fallbackWords
                                THEN actualCategory ELSE "object"
            list             == fallbackWords[validCategory]
            word             == list[(rnd % Len(list)) + 1]
        IN  [word       |-> word,
             category   |-> actualCategory,
             difficulty |-> actualDifficulty,
             hints      |-> Some(<<
                 "This is a common " \o actualCategory,
                 "Think about " \o actualCategory \o "s you encounter often",
                 "It starts with the letter '" \o CharAt(word, 1) \o "'" >>)]

\* gemini.ts selectRandomWordGemini(options): the parsed object is returned
\* as it is, so a field the reply omits is undefined.
selectRandomWordGemini(options, llm) ==
    IF llm.ok
    THEN [word       |-> llm.word,
          category   |-> llm.category,
          difficulty |-> llm.difficulty,
          hints      |-> llm.hints]
    ELSE [word       |-> "computer",
          category   |-> OrElse(options.category, "object"),
          difficulty |-> OrElse(options.difficulty, "medium"),
          hints      |-> Some(<< "You can use it to access the internet",
                                 "It processes information electronically",
                                 "It has a keyboard and screen" >>)]

\* answerQuestion with a catch block that has no fallback answer to give.
answerQuestionWithoutFallback(word, question, llm) ==
    IF llm.ok /\ trim(llm.content) # "" THEN trim(llm.content) ELSE ""

\* openai.ts answerQuestion(word, question, previousQuestions)
answerQuestion(word, question, llm) ==
    IF llm.ok /\ trim(llm.content) # ""
    THEN trim(llm.content)
    ELSE IF includes(toLowerCase(question), toLowerCase(word))
         THEN "Yes, you're on the right track!"
         ELSE "No, that's not it. Please ask another yes/no question."

\* gemini.ts answerQuestionGemini(word, question, previousQuestions)
answerQuestionGemini(word, question, llm) ==
    IF llm.ok THEN trim(llm.content) ELSE "No"

\* openai.ts simulateHumanAnswer(word, question, previousQuestions)
simulateHumanAnswer(word, question, llm) ==
    IF llm.ok /\ trim(llm.content) # ""
    THEN trim(llm.content)
    ELSE IF includes(toLowerCase(question), toLowerCase(word))
         THEN "Yes, you're getting close!"
         ELSE "No, that's not it."

\* gemini.ts simulateHumanAnswerGemini(word, question, previousQuestions)
simulateHumanAnswerGemini(word, question, llm) ==
    IF llm.ok THEN trim(llm.content) ELSE "No"

\* openai.ts: the fallback list of generateQuestion
fallbackQuestions ==
    << "Is it alive?",
       "Is it larger than a bread box?",
       "Can you find it in a home?",
       "Is it used for entertainment?",
       "Is it edible?",
       "Is it a common household item?",
       "Is it electronic?",
       "Is it found in nature?",
       "Can you wear it?",
       "Is it made of metal?" >>

\* openai.ts generateQuestion(word, previousQuestions)
generateQuestion(word, previousQuestions, llm) ==
    IF llm.ok /\ trim(llm.content) # ""
    THEN trim(llm.content)
    ELSE
        LET askedQuestions == { toLowerCase(previousQuestions[i].question) :
                                  i \in 1..Len(previousQuestions) }
            availableQuestions ==
                SelectSeq(fallbackQuestions,
                          LAMBDA q : toLowerCase(q) \notin askedQuestions)
        IN  IF Len(availableQuestions) > 0
            THEN availableQuestions[1]
            ELSE "Is it something people use daily?"

\* gemini.ts generateQuestionGemini(word, previousQuestions)
generateQuestionGemini(word, previousQuestions, llm) ==
    IF llm.ok THEN trim(llm.content) ELSE "Is it a living thing?"

\* openai.ts makeGuess(previousQuestions)
makeGuess(previousQuestions, llm) ==
    IF llm.ok /\ trim(llm.content) # "" THEN trim(llm.content) ELSE "Unknown"

\* gemini.ts makeGuessGemini(previousQuestions)
makeGuessGemini(previousQuestions, llm) ==
    IF llm.ok THEN trim(llm.content) ELSE "apple"

winFeedback(word)  == "Yes, it's " \o word \o "! You win!"
loseFeedback(word) == "No, that's not right. The word was " \o word \o ". You lose."

\* The judge whose catch block answers "correct" whatever the guess.
checkFinalGuessFailingOpen(word, guess, llm) ==
    IF llm.ok
    THEN [correct  |-> llm.correct,
          feedback |-> IF llm.correct THEN winFeedback(word) ELSE loseFeedback(word)]
    ELSE [correct |-> TRUE, feedback |-> winFeedback(word)]

\* openai.ts checkFinalGuess(word, guess, previousQuestions)
checkFinalGuess(word, guess, llm) ==
    LET normalizedWord  == trim(toLowerCase(word))
        normalizedGuess == trim(toLowerCase(guess))
    IN
    IF normalizedGuess = normalizedWord
    THEN [correct |-> TRUE, feedback |-> winFeedback(word)]
    ELSE IF llm.ok
         THEN [correct  |-> llm.correct,
               feedback |-> IF llm.correct THEN winFeedback(word)
                            ELSE loseFeedback(word)]
         ELSE \* the catch block: the exact match again, which has just failed
              LET isCorrect == trim(toLowerCase(guess)) = trim(toLowerCase(word))
              IN  [correct  |-> isCorrect,
                   feedback |-> IF isCorrect THEN winFeedback(word)
                                ELSE loseFeedback(word)]

\* \w of a JavaScript regular expression
WordChars ==
    UNION { { CharAt(cs, i) : i \in 1..Len(cs) } :
              cs \in {UpperCaseLetters, LowerCaseLetters, "0123456789_"} }

\* .replace(/[^\w\s]/g, '')
RECURSIVE removeSpecialChars(_)
removeSpecialChars(s) ==
    IF Len(s) = 0 THEN ""
    ELSE LET c == CharAt(s, 1)
             rest == removeSpecialChars(SubSeq(s, 2, Len(s)))
         IN  IF c \in WordChars \/ IsWhiteSpace(c) THEN c \o rest ELSE rest

\* .replace(/\s+/g, ' ')
RECURSIVE collapseWhiteSpace(_)
collapseWhiteSpace(s) ==
    IF Len(s) = 0 THEN ""
    ELSE IF IsWhiteSpace(CharAt(s, 1))
         THEN " " \o collapseWhiteSpace(trimStart(s))
         ELSE CharAt(s, 1) \o collapseWhiteSpace(SubSeq(s, 2, Len(s)))

\* normalizeText without its last step, the second trim.
normalizeTextTrimmedOnce(text) ==
    collapseWhiteSpace(removeSpecialChars(trim(toLowerCase(text))))

\* gemini.ts normalizeText, inside checkFinalGuessGemini
normalizeText(text) ==
    trim(collapseWhiteSpace(removeSpecialChars(trim(toLowerCase(text)))))

\* gemini.ts checkFinalGuessGemini(word, guess, previousQuestions)
checkFinalGuessGemini(word, guess, llm) ==
    LET isCorrect == normalizeText(word) = normalizeText(guess)
    IN  IF llm.ok
        THEN [correct |-> isCorrect, feedback |-> trim(llm.content)]
        ELSE IF isCorrect
             THEN [correct  |-> TRUE,
                   feedback |-> "Congratulations! You correctly guessed the word!"]
             ELSE [correct  |-> FALSE,
                   feedback |-> "Sorry, the correct word was \"" \o word
                                \o "\". Better luck next time!"]

-----------------------------------------------------------------------------
(* MemStorage: the session store.                                          *)

\* A default parameter value: used when the argument is undefined.
Default(arg, value) == IF arg = Undefined THEN value ELSE arg

\* `game_${Date.now()}_${Math.floor(Math.random() * 1000)}`
SessionId(t, suffix) == "game_" \o ToString(t) \o "_" \o ToString(suffix)

\* The session created with its hints counted as used already
\* (hintsUsed: hints.length for hintsUsed: 0).
createGameSessionHintsSpent(word, category, difficulty, gameMode, hints, t, suffix) ==
    [id            |-> SessionId(t, suffix),
     word          |-> word,
     category      |-> Default(category, "object"),
     difficulty    |-> Default(difficulty, "medium"),
     gameMode      |-> Default(gameMode, "v1"),
     questionCount |-> 0,
     questions     |-> <<>>,
     active        |-> TRUE,
     hints         |-> IF hints = None THEN <<>> ELSE hints[1],
     hintsUsed     |-> IF hints = None THEN 0 ELSE Len(hints[1]),
     startTime     |-> t,
     pauseTime     |-> None]

\* MemStorage.createGameSession(word, category, difficulty, gameMode, hints)
\* at clock time t; suffix is Math.floor(Math.random() * 1000).
createGameSession(word, category, difficulty, gameMode, hints, t, suffix) ==
    [id            |-> SessionId(t, suffix),
     word          |-> word,
     category      |-> Default(category, "object"),
     difficulty    |-> Default(difficulty, "medium"),
     gameMode      |-> Default(gameMode, "v1"),
     questionCount |-> 0,
     questions     |-> <<>>,
     active        |-> TRUE,
     hints         |-> IF hints = None THEN <<>> ELSE hints[1],
     hintsUsed     |-> 0,
     startTime     |-> t,
     pauseTime     |-> None]

\* this.gameSessions.set(session.id, session)
setGameSession(sessions, session) ==
    [id \in DOMAIN sessions \cup {session.id} |->
        IF id = session.id THEN session ELSE sessions[id]]

\* The session left as it is: the active flag is not cleared.
endGameSessionLeftActive(sessions, id) == sessions

\* MemStorage.endGameSession(id, win)
endGameSession(sessions, id) ==
    IF id \in DOMAIN sessions
    THEN [sessions EXCEPT ![id].active = FALSE]
    ELSE sessions

-----------------------------------------------------------------------------
(* routes.ts: the request handlers.                                        *)

Ok(body)           == [status |-> 200, body |-> body]
BadRequest(error)  == [status |-> 400, body |-> [error |-> error]]
ServerError(error) == [status |-> 500, body |-> [error |-> error]]

NoActiveSession     == BadRequest("No active game session")
MaxQuestionsReached == BadRequest("Maximum questions reached")
WrongMode           == BadRequest("This endpoint is only available in V2 mode")

\* if (!currentGameSessionId) ...; const session = await storage.getGameSession(...);
\* if (!session || !session.active) ...
HasActiveSession ==
    /\ currentGameSessionId # Null
    /\ currentGameSessionId \in DOMAIN store
    /\ store[currentGameSessionId].active

\* A request that only answers: it changes nothing of the game.
RespondOnly(reply) ==
    /\ response' = reply
    /\ UNCHANGED <<store, currentGameSessionId, playedMs>>

\* Whether a text completion yields a usable content (openai.ts: a failure
\* or an empty content runs the catch block).
Usable(llm) == llm.ok /\ trim(llm.content) # ""

\* POST /api/game/start: the word selector is the one of llmConfig.answerer
wordDataFor(req, llm, rnd) ==
    LET difficulty == Default(req.difficulty, "medium")
        options    == [category |-> req.category, difficulty |-> difficulty]
    IN  IF req.llmConfig.answerer = "gemini"
        THEN selectRandomWordGemini(options, llm)
        ELSE selectRandomWord(options, llm, rnd)

\* The response that carries the word and the hints whatever NODE_ENV is.
startResponseAlwaysDebug(env, gameMode, wordData) ==
    Ok([success    |-> TRUE,
        word       |-> wordData.word,
        gameMode   |-> gameMode,
        category   |-> wordData.category,
        difficulty |-> wordData.difficulty,
        hints      |-> wordData.hints])

\* POST /api/game/start: the response, which depends on process.env.NODE_ENV
startResponse(env, gameMode, wordData) ==
    IF env = "production"
    THEN Ok([success    |-> TRUE,
             gameMode   |-> gameMode,
             category   |-> wordData.category,
             difficulty |-> wordData.difficulty])
    ELSE Ok([success    |-> TRUE,
             word       |-> wordData.word,
             gameMode   |-> gameMode,
             category   |-> wordData.category,
             difficulty |-> wordData.difficulty,
             hints      |-> wordData.hints])

\* POST /api/game/start
StartGame(req, llm, rnd, suffix) ==
    LET gameMode   == Default(req.gameMode, "v1")
        wordData   == wordDataFor(req, llm, rnd)
        session    == createGameSession(wordData.word, wordData.category,
                                        wordData.difficulty, gameMode,
                                        wordData.hints, now, suffix)
    IN  /\ store' = setGameSession(store, session)
        /\ currentGameSessionId' = session.id
        /\ response' = startResponse(nodeEnv, gameMode, wordData)
        /\ playedMs' = 0
        /\ UNCHANGED <<now, nodeEnv>>

\* POST /api/game/stop
StopGame ==
    /\ IF currentGameSessionId # Null
       THEN /\ store' = endGameSession(store, currentGameSessionId)
            /\ currentGameSessionId' = Null
       ELSE UNCHANGED <<store, currentGameSessionId>>
    /\ response' = Ok([success |-> TRUE])
    /\ UNCHANGED <<now, nodeEnv, playedMs>>

\* The budget check off by one: > 20 for >= 20.
BudgetExhaustedOffByOne(session) == session.questionCount > MaxQuestions

\* if (session.questionCount >= 20): the question budget is used up
BudgetExhausted(session) == session.questionCount >= MaxQuestions

\* session.questionCount += 1; session.questions.push({question, answer}) of
\* /api/game/ask, and push({question, answer, isLLMQuestion: true}) of
\* /api/game/answer-llm (an entry without the mark reads as unmarked)
recordQuestion(session, question, answer, isLLMQuestion) ==
    [session EXCEPT
       !.questionCount = @ + 1,
       !.questions = Append(@, [question      |-> question,
                                answer        |-> answer,
                                isLLMQuestion |-> isLLMQuestion])]

\* POST /api/game/ask
AskQuestion(question, llm) ==
    /\ UNCHANGED <<now, nodeEnv>>
    /\ IF ~TruthyString(question)
       THEN RespondOnly(BadRequest("Question is required"))
       ELSE IF ~HasActiveSession
       THEN RespondOnly(NoActiveSession)
       ELSE LET session == store[currentGameSessionId] IN
            IF BudgetExhausted(session)
            THEN RespondOnly(MaxQuestionsReached)
            ELSE IF session.word = Undefined /\ ~Usable(llm)
            THEN \* word.toLowerCase() throws in answerQuestion's catch block
                 RespondOnly(ServerError("Failed to process question"))
            ELSE LET answer == answerQuestion(session.word, question, llm) IN
                 /\ store' = setGameSession(store,
                        recordQuestion(session, question, answer, FALSE))
                 /\ response' = Ok([question |-> question, answer |-> answer])
                 /\ UNCHANGED <<currentGameSessionId, playedMs>>

NoHintsForWord == BadRequest("No hints available for this word")
NoMoreHints    == BadRequest("No more hints available")

\* if (session.hintsUsed >= session.hints.length)
HintsExhausted(session) == session.hintsUsed >= Len(session.hints)

\* The hint read without the index: always the first one.
nextHintAlwaysFirst(session) == session.hints[1]

\* const hint = session.hints[session.hintsUsed] (0-based in the code)
nextHint(session) == session.hints[session.hintsUsed + 1]

\* The counter raised twice for one hint.
useHintCountedTwice(session) == [session EXCEPT !.hintsUsed = @ + 2]

\* The hint issued is taken off the session's list.
useHintTakenOffTheList(session) ==
    [session EXCEPT !.hintsUsed = @ + 1, !.hints = Tail(@)]

\* session.hintsUsed += 1
useHint(session) == [session EXCEPT !.hintsUsed = @ + 1]

\* POST /api/game/hint
RequestHint ==
    /\ UNCHANGED <<now, nodeEnv>>
    /\ IF ~HasActiveSession
       THEN RespondOnly(NoActiveSession)
       ELSE LET session == store[currentGameSessionId] IN
            IF Len(session.hints) = 0
            THEN RespondOnly(NoHintsForWord)
            ELSE IF HintsExhausted(session)
            THEN RespondOnly(NoMoreHints)
            ELSE LET hint    == nextHint(session)
                     updated == useHint(session)
                 IN
                 /\ store' = setGameSession(store, updated)
                 /\ response' = Ok([hint       |-> hint,
                                    hintsUsed  |-> updated.hintsUsed,
                                    totalHints |-> Len(updated.hints)])
                 /\ UNCHANGED <<currentGameSessionId, playedMs>>

\* The mode check left out: the endpoint serves a session of any mode.
IsV2WhateverTheMode(session) == TRUE

\* session.gameMode !== "v2" is the test of the three LLM turn endpoints
IsV2(session) == session.gameMode = "v2"

\* POST /api/game/llm-question
LLMQuestionTurn(llmConfig, llm) ==
    /\ UNCHANGED <<now, nodeEnv>>
    /\ IF ~HasActiveSession
       THEN RespondOnly(NoActiveSession)
       ELSE LET session == store[currentGameSessionId] IN
            IF ~IsV2(session)
            THEN RespondOnly(WrongMode)
            ELSE IF BudgetExhausted(session)
            THEN RespondOnly(MaxQuestionsReached)
            ELSE LET useGemini == /\ TruthyString(llmConfig.questioner)
                                  /\ llmConfig.questioner = "gemini"
                     question  == IF useGemini
                                  THEN generateQuestionGemini(session.word,
                                                              session.questions, llm)
                                  ELSE generateQuestion(session.word,
                                                        session.questions, llm)
                 IN  RespondOnly(Ok([question      |-> question,
                                questionCount |-> session.questionCount]))

\* POST /api/game/answer-llm
LLMAnswerTurn(question, llmConfig, llm) ==
    /\ UNCHANGED <<now, nodeEnv>>
    /\ IF ~TruthyString(question)
       THEN RespondOnly(BadRequest("Question is required"))
       ELSE IF ~HasActiveSession
       THEN RespondOnly(NoActiveSession)
       ELSE LET session == store[currentGameSessionId] IN
            IF ~IsV2(session)
            THEN RespondOnly(WrongMode)
            ELSE IF BudgetExhausted(session)
            THEN RespondOnly(MaxQuestionsReached)
            ELSE LET useGemini == /\ TruthyString(llmConfig.answerer)
                                  /\ llmConfig.answerer = "gemini"
                 IN
                 IF ~useGemini /\ session.word = Undefined /\ ~Usable(llm)
                 THEN \* word.toLowerCase() throws in simulateHumanAnswer's catch block
                      RespondOnly(ServerError("Failed to process question"))
                 ELSE LET answer == IF useGemini
                                    THEN simulateHumanAnswerGemini(session.word,
                                                                   question, llm)
                                    ELSE simulateHumanAnswer(session.word,
                                                             question, llm)
                      IN
                      /\ store' = setGameSession(store,
                             recordQuestion(session, question, answer, TRUE))
                      /\ response' = Ok([question      |-> question,
                                         answer        |-> answer,
                                         questionCount |-> session.questionCount + 1])
                      /\ UNCHANGED <<currentGameSessionId, playedMs>>

\* POST /api/game/llm-guess
LLMGuessTurn(llmConfig, llmGuess, llmJudge) ==
    /\ UNCHANGED <<now, nodeEnv>>
    /\ IF ~HasActiveSession
       THEN RespondOnly(NoActiveSession)
       ELSE LET session == store[currentGameSessionId] IN
            IF ~IsV2(session)
            THEN RespondOnly(WrongMode)
            ELSE LET given == /\ TruthyString(llmConfig.questioner)
                              /\ TruthyString(llmConfig.answerer)
                     guess == IF given /\ llmConfig.questioner = "gemini"
                              THEN makeGuessGemini(session.questions, llmGuess)
                              ELSE makeGuess(session.questions, llmGuess)
                     result == IF given /\ llmConfig.answerer = "gemini"
                               THEN checkFinalGuessGemini(session.word, guess, llmJudge)
                               ELSE checkFinalGuess(session.word, guess, llmJudge)
                 IN
                 IF session.word = Undefined
                 THEN \* word.toLowerCase() throws in either judge
                      RespondOnly(ServerError("Failed to process guess"))
                 ELSE /\ store' = endGameSession(store, session.id)
                      /\ currentGameSessionId' = Null
                      /\ response' = Ok([guess    |-> guess,
                                         correct  |-> result.correct,
                                         feedback |-> result.feedback,
                                         word     |-> session.word])
                      /\ UNCHANGED playedMs

\* POST /api/game/guess.  The store keeps no llmConfig with a session
\* (createGameSession takes five arguments), so session.llmConfig?.answerer
\* is undefined and the OpenAI judge is the one called.
MakeGuess(guess, llm) ==
    /\ UNCHANGED <<now, nodeEnv>>
    /\ IF ~TruthyString(guess)
       THEN RespondOnly(BadRequest("Guess is required"))
       ELSE IF ~HasActiveSession
       THEN RespondOnly(NoActiveSession)
       ELSE LET session == store[currentGameSessionId]
                result  == checkFinalGuess(session.word, guess, llm)
            IN
            IF session.word = Undefined
            THEN \* word.toLowerCase() throws in checkFinalGuess and in its catch block
                 RespondOnly(ServerError("Failed to process guess"))
            ELSE /\ store' = endGameSession(store, session.id)
                 /\ currentGameSessionId' = Null
                 /\ response' = Ok([correct  |-> result.correct,
                                    feedback |-> result.feedback,
                                    word     |-> session.word])
                 /\ UNCHANGED playedMs

\* GET /api/stats: the statistics are the route's fixed figures.
mockStatistics ==
    [gamesPlayed |-> 10, gamesWon |-> 6, averageQuestions |-> 14, bestScore |-> 8]

\* Math.floor((currentTime - session.startTime) / 1000), 0 when startTime is 0
gameTimeInSeconds(session, currentTime) ==
    IF session.startTime # 0
    THEN (currentTime - session.startTime) \div MsPerSecond
    ELSE 0

GetStatistics ==
    /\ UNCHANGED <<now, nodeEnv>>
    /\ IF currentGameSessionId # Null /\ currentGameSessionId \in DOMAIN store
       THEN LET session == store[currentGameSessionId] IN
            RespondOnly(Ok([currentGame |->
                               [questionCount     |-> session.questionCount,
                                category          |-> session.category,
                                difficulty        |-> session.difficulty,
                                gameMode          |-> session.gameMode,
                                hintsUsed         |-> session.hintsUsed,
                                gameTimeInSeconds |-> gameTimeInSeconds(session, now),
                                active            |-> session.active],
                            statistics |-> mockStatistics]))
       ELSE RespondOnly(Ok([currentGame |-> Null, statistics |-> mockStatistics]))

\* The pause branch of POST /api/game/pause: session.pauseTime = Date.now()
pauseSession(session, t) == [session EXCEPT !.pauseTime = Some(t)]

\* The resume branch of POST /api/game/pause
resumeSession(session, t) ==
    IF TruthyNumber(session.pauseTime)
    THEN LET pauseDuration == t - session.pauseTime[1]
         IN  [session EXCEPT !.startTime = @ + pauseDuration,
                             !.pauseTime = None]
    ELSE session

\* POST /api/game/pause, with body {pause} (true when omitted)
PauseGame(pause) ==
    /\ UNCHANGED <<now, nodeEnv>>
    /\ IF ~HasActiveSession
       THEN RespondOnly(NoActiveSession)
       ELSE LET session == store[currentGameSessionId] IN
            /\ store' = setGameSession(store,
                   IF pause THEN pauseSession(session, now)
                            ELSE resumeSession(session, now))
            /\ response' = Ok([success |-> TRUE, paused |-> pause])
            /\ UNCHANGED <<currentGameSessionId, playedMs>>

\* Time passes between two requests.  playedMs records the time that passes
\* while the current session is active and not paused.
Tick ==
    /\ now + TickMs <= StartClock + MaxTicks * TickMs
    /\ now' = now + TickMs
    /\ playedMs' = IF HasActiveSession /\ store[currentGameSessionId].pauseTime = None
                   THEN playedMs + TickMs
                   ELSE playedMs
    /\ UNCHANGED <<store, currentGameSessionId, nodeEnv, response>>

-----------------------------------------------------------------------------
(* The environment: the requests clients send and what the LLM calls       *)
(* yield.  An environment is a record of the finite sets they are drawn    *)
(* from.                                                                   *)

\* const { llmConfig } = req.body, when the body carries none
NoConfig     == [questioner |-> Undefined, answerer |-> Undefined]
OpenAIConfig == [questioner |-> "openai", answerer |-> "openai"]
GeminiConfig == [questioner |-> "gemini", answerer |-> "gemini"]

StartRequest(gameMode, category, difficulty, llmConfig) ==
    [gameMode |-> gameMode, category |-> category,
     difficulty |-> difficulty, llmConfig |-> llmConfig]

\* Session ids are taken to be unique: the clock and the random suffix never
\* give a new game the id of a game already in the store.
FreshId(suffix) == SessionId(now, suffix) \notin DOMAIN store

\* The number of entries of a session's log that came in through /api/game/ask.
DirectAsks(session) ==
    Cardinality({ i \in 1..Len(session.questions) :
                    ~session.questions[i].isLLMQuestion })

\* The environment sends at most directAsks AskQuestion requests to one
\* llm-asks session (its questions come from the LLM turn endpoints).
MayAskDirectly(directAsks) ==
    HasActiveSession /\ store[currentGameSessionId].gameMode = "v2"
        => DirectAsks(store[currentGameSessionId]) < directAsks

\* The environment stops sending questions to a game whose log holds
\* questionsPerGame entries.
MaySendQuestion(questionsPerGame) ==
    HasActiveSession
        => Len(store[currentGameSessionId].questions) < questionsPerGame

\* EnhancedGameContainer: const defaultStats
defaultStats ==
    [gamesPlayed      |-> 0,
     gamesWon         |-> 0,
     averageQuestions |-> 0,
     bestScore        |-> 20,
     completionTimes  |-> <<>>]

\* EnhancedGameContainer: the initial gameState.  gameResult is not set (read
\* as null); gameStartTime is not set, and is read as (gameStartTime || 0).
initialGameState ==
    [questionCount |-> 0,
     isGameActive  |-> FALSE,
     gameMode      |-> "v1",
     gameResult    |-> Null,
     gameStartTime |-> 0,
     isPaused      |-> FALSE,
     llmConfig     |-> OpenAIConfig,
     stats         |-> defaultStats]

\* LLMvsLLMMode is rendered while gameState.gameMode === "v2".
Unmounted == [mounted |-> FALSE]

\* The browser before a game is started, and no request in flight.
ClientInit ==
    /\ gameState = initialGameState
    /\ finalGuessMode = FALSE
    /\ llmMode = Unmounted
    /\ games = <<>>
    /\ inflight = {}

\* The requests come from elsewhere than the browser client modelled here,
\* and each is handled before the next arrives.
ServerAlone == UNCHANGED <<gameState, finalGuessMode, llmMode, games, inflight>>

\* The game requests, one at a time.
Requests(env) ==
    \/ \E req \in env.startRequests, llm \in env.wordReplies,
          rnd \in env.randoms, suffix \in env.idSuffixes :
            FreshId(suffix) /\ StartGame(req, llm, rnd, suffix) /\ ServerAlone
    \/ StopGame /\ ServerAlone
    \/ \E question \in env.questions, llm \in env.answerReplies :
            /\ MayAskDirectly(env.directAsks)
            /\ MaySendQuestion(env.questionsPerGame)
            /\ AskQuestion(question, llm)
            /\ ServerAlone
    \/ RequestHint /\ ServerAlone
    \/ \E llmConfig \in env.llmConfigs, llm \in env.questionReplies :
            LLMQuestionTurn(llmConfig, llm) /\ ServerAlone
    \/ \E question \in env.questions, llmConfig \in env.llmConfigs,
          llm \in env.answerReplies :
            /\ MaySendQuestion(env.questionsPerGame)
            /\ LLMAnswerTurn(question, llmConfig, llm)
            /\ ServerAlone
    \/ \E llmConfig \in env.llmConfigs, llmGuess \in env.guessReplies,
          llmJudge \in env.judgeReplies :
            LLMGuessTurn(llmConfig, llmGuess, llmJudge) /\ ServerAlone
    \/ \E guess \in env.guesses, llm \in env.judgeReplies :
            MakeGuess(guess, llm) /\ ServerAlone
    \/ \E pause \in BOOLEAN : PauseGame(pause) /\ ServerAlone

NoResponse == [status |-> 0, body |-> [error |-> ""]]

\* The server after start-up: an empty store and no current session.
Init ==
    /\ store = [id \in {} |-> Null]
    /\ currentGameSessionId = Null
    /\ now = StartClock
    /\ nodeEnv = "development"
    /\ response = NoResponse
    /\ playedMs = 0
    /\ ClientInit

\* One game, every kind of request, the whole question budget (a game is
\* sent questions until one is refused).  The clock stands still.
Env ==
    [startRequests   |-> { StartRequest(mode, "animal", "easy", NoConfig) :
                             mode \in {"v1", "v2"} },
     wordReplies     |-> { LLMFailure,
                           WordReply("Owl", "animal", "easy", Some(<<>>)) },
     randoms         |-> {0},
     idSuffixes      |-> {0},
     questions       |-> {"Is it alive?", ""},
     answerReplies   |-> {TextReply("Yes")},
     questionReplies |-> {TextReply("Is it alive?")},
     llmConfigs      |-> {NoConfig},
     guessReplies    |-> {TextReply("owl")},
     guesses         |-> {"Dog!", "owl", ""},
     judgeReplies    |-> {JudgeReply(FALSE), LLMFailure},
     directAsks      |-> MaxDirectAsks,
     questionsPerGame |-> MaxQuestions + 1]

Next == Requests(Env)

Spec == Init /\ [][Next]_vars

\* Two games, one after the other or the second replacing the first, each
\* sent a few questions.  The clock stands still.
EnvRestart ==
    [startRequests   |-> { StartRequest(mode, "animal", "easy", NoConfig) :
                             mode \in {"v1", "v2"} },
     wordReplies     |-> { WordReply("Owl", "animal", "easy", Some(<<"It hoots">>)) },
     randoms         |-> {0},
     idSuffixes      |-> {0, 1},
     questions       |-> {"Is it alive?"},
     answerReplies   |-> {TextReply("Yes")},
     questionReplies |-> {TextReply("Is it alive?")},
     llmConfigs      |-> {NoConfig},
     guessReplies    |-> {TextReply("owl")},
     guesses         |-> {"cat"},
     judgeReplies    |-> {JudgeReply(FALSE)},
     directAsks      |-> QuestionsPerGame,
     questionsPerGame |-> QuestionsPerGame]

NextRestart == Requests(EnvRestart)

SpecRestart == Init /\ [][NextRestart]_vars

\* The clock runs: games are started, paused, resumed and stopped, and the
\* statistics are read, as time passes.
EnvClock ==
    [startRequests   |-> { StartRequest("v1", "animal", "easy", NoConfig) },
     wordReplies     |-> { WordReply("Owl", "animal", "easy", Some(<<>>)) },
     randoms         |-> {0},
     idSuffixes      |-> {0}]

NextClock ==
    \/ \E req \in EnvClock.startRequests, llm \in EnvClock.wordReplies,
          rnd \in EnvClock.randoms, suffix \in EnvClock.idSuffixes :
            FreshId(suffix) /\ StartGame(req, llm, rnd, suffix) /\ ServerAlone
    \/ StopGame /\ ServerAlone
    \/ \E pause \in BOOLEAN : PauseGame(pause) /\ ServerAlone
    \/ GetStatistics /\ ServerAlone
    \/ Tick /\ ServerAlone

SpecClock == Init /\ [][NextClock]_vars

-----------------------------------------------------------------------------
(* The question budget.                                                    *)

CurrentSession == store[currentGameSessionId]

\* A question text, or a guess text, that passes the handler's validation.
WellFormed(text) == TruthyString(text)

\* C1: after any sequence of requests, every session in the store has
\* 0 <= questionCount <= 20 and questionCount = the number of entries of its
\* questions log.
QuestionCountWithinBudget ==
    \A id \in DOMAIN store :
        /\ store[id].questionCount >= 0
        /\ store[id].questionCount <= MaxQuestions
        /\ store[id].questionCount = Len(store[id].questions)

\* An llm-asks session whose budget was used up by LLM turns and a direct
\* question together, and a further question has just been refused.
BudgetUsedUpByBothEndpoints ==
    /\ HasActiveSession
    /\ CurrentSession.gameMode = "v2"
    /\ CurrentSession.questionCount = MaxQuestions
    /\ DirectAsks(CurrentSession) = 1
    /\ response = MaxQuestionsReached

\* A human-asks session that 20 AskQuestion requests have succeeded on.
TwentyQuestionsAsked ==
    /\ HasActiveSession
    /\ CurrentSession.gameMode = "v1"
    /\ Len(CurrentSession.questions) = MaxQuestions

\* A guess that is wrong: not the secret word, and the judge's LLM call, if
\* it succeeds, does not take it for the word either.
WrongGuess(word, guess, llm) ==
    /\ trim(toLowerCase(guess)) # trim(toLowerCase(word))
    /\ llm.ok => ~llm.correct

-----------------------------------------------------------------------------
(* Hints.                                                                  *)

HintsWithinBounds ==
    \A id \in DOMAIN store :
        /\ store[id].hintsUsed >= 0
        /\ store[id].hintsUsed <= Len(store[id].hints)

\* C3: in every session 0 <= hintsUsed <= len(hints), and hintsUsed never
\* decreases; a RequestHint issued when hintsUsed = len(hints) (with no
\* hints, in particular) fails with a "no hints" error and changes nothing
\* of the session.
HintsBoundedAndMonotone ==
    /\ []HintsWithinBounds
    /\ [][ /\ \A id \in DOMAIN store :
                 /\ id \in DOMAIN store'
                 /\ store'[id].hintsUsed >= store[id].hintsUsed
           /\ ( /\ HasActiveSession
                /\ CurrentSession.hintsUsed = Len(CurrentSession.hints)
                /\ RequestHint )
                => /\ response' \in {NoHintsForWord, NoMoreHints}
                   /\ UNCHANGED <<store, currentGameSessionId>>
         ]_vars

\* The fourth hint of a word with three has just been refused.
FourthHintRefused ==
    /\ HasActiveSession
    /\ Len(CurrentSession.hints) = 3
    /\ CurrentSession.hintsUsed = 3
    /\ response = NoMoreHints

\* C4: the k-th successful RequestHint of a session returns hints[k-1]
\* (0-based: the k-th stored hint) with hintsUsed = k in the response; a
\* request succeeds exactly while hints are left, so a session with 3 hints
\* gets them in order from its first three requests and the 4th fails.
\* (hintsUsed counts the successful requests: it starts at 0 and no other
\* step changes it.)
HintsIssuedInOrder ==
    [][ HasActiveSession =>
          LET session == CurrentSession
              k       == session.hintsUsed + 1
          IN  /\ RequestHint /\ k <= Len(session.hints) =>
                    /\ response' = Ok([hint       |-> session.hints[k],
                                       hintsUsed  |-> k,
                                       totalHints |-> Len(session.hints)])
                    /\ store'[session.id].hintsUsed = k
              /\ RequestHint /\ k > Len(session.hints) =>
                    /\ response'.status = 400
                    /\ store' = store
              /\ ~RequestHint =>
                    store'[session.id].hintsUsed = session.hintsUsed
      ]_vars

\* The third hint of three has just been issued.
ThirdHintIssued ==
    /\ HasActiveSession
    /\ Len(CurrentSession.hints) = 3
    /\ response = Ok([hint       |-> CurrentSession.hints[3],
                      hintsUsed  |-> 3,
                      totalHints |-> 3])

-----------------------------------------------------------------------------
(* The life of a session.                                                  *)

\* A successful MakeGuess, LLMGuessTurn or StopGame on the current session.
TerminalOperation(env) ==
    /\ HasActiveSession
    /\ \/ \E guess \in env.guesses, llm \in env.judgeReplies :
             MakeGuess(guess, llm) /\ response'.status = 200
       \/ \E llmConfig \in env.llmConfigs, llmGuess \in env.guessReplies,
             llmJudge \in env.judgeReplies :
             LLMGuessTurn(llmConfig, llmGuess, llmJudge) /\ response'.status = 200
       \/ StopGame

\* A well-formed request of a running game: any request but StartGame,
\* StopGame and GetStatistics.
PlayRequest(env) ==
    \/ \E question \in env.questions, llm \in env.answerReplies :
          WellFormed(question) /\ AskQuestion(question, llm)
    \/ RequestHint
    \/ \E pause \in BOOLEAN : PauseGame(pause)
    \/ \E guess \in env.guesses, llm \in env.judgeReplies :
          WellFormed(guess) /\ MakeGuess(guess, llm)
    \/ \E llmConfig \in env.llmConfigs, llm \in env.questionReplies :
          LLMQuestionTurn(llmConfig, llm)
    \/ \E question \in env.questions, llmConfig \in env.llmConfigs,
          llm \in env.answerReplies :
          WellFormed(question) /\ LLMAnswerTurn(question, llmConfig, llm)
    \/ \E llmConfig \in env.llmConfigs, llmGuess \in env.guessReplies,
          llmJudge \in env.judgeReplies :
          LLMGuessTurn(llmConfig, llmGuess, llmJudge)

AnyStartGame(env) ==
    \E req \in env.startRequests, llm \in env.wordReplies,
       rnd \in env.randoms, suffix \in env.idSuffixes :
        StartGame(req, llm, rnd, suffix)

\* C5: a successful MakeGuess, LLMGuessTurn or StopGame ends the session:
\* its active flag is false and the current-session pointer is cleared;
\* from then on every AskQuestion, RequestHint, PauseGame, MakeGuess,
\* LLMQuestionTurn, LLMAnswerTurn and LLMGuessTurn fails with "No active
\* game session" and changes nothing, and only a StartGame sets the pointer
\* again.
TerminalOperationsEndTheSession ==
    [][ /\ TerminalOperation(EnvRestart) =>
              /\ ~store'[currentGameSessionId].active
              /\ currentGameSessionId' = Null
        /\ currentGameSessionId = Null /\ PlayRequest(EnvRestart) =>
              /\ response' = NoActiveSession
              /\ UNCHANGED <<store, currentGameSessionId>>
        /\ currentGameSessionId = Null /\ currentGameSessionId' # Null =>
              AnyStartGame(EnvRestart)
      ]_vars

\* A request has just been refused after the game ended.
RefusedAfterTheEnd ==
    /\ currentGameSessionId = Null
    /\ response = NoActiveSession
    /\ \E id \in DOMAIN store : ~store[id].active /\ store[id].questionCount > 0

\* C10: every successful StartGame, whatever the state it is issued in,
\* creates a new session with questionCount 0, an empty log, hintsUsed 0,
\* active = true and no pauseTime, and makes it the current session.
StartGameCreatesFreshSession ==
    [][ AnyStartGame(EnvRestart) /\ response'.status = 200 =>
          LET id == currentGameSessionId' IN
          /\ id # Null
          /\ id \notin DOMAIN store
          /\ id \in DOMAIN store'
          /\ store'[id].id = id
          /\ store'[id].questionCount = 0
          /\ store'[id].questions = <<>>
          /\ store'[id].hintsUsed = 0
          /\ store'[id].active
          /\ store'[id].pauseTime = None
      ]_vars

\* A game has just been started while another one was running, paused, with
\* a question asked and a hint used.
StartedOverARunningGame ==
    /\ HasActiveSession
    /\ response.status = 200
    /\ "gameMode" \in DOMAIN response.body
    /\ CurrentSession.questionCount = 0
    /\ CurrentSession.hintsUsed = 0
    /\ \E id \in DOMAIN store \ {currentGameSessionId} :
          /\ store[id].active
          /\ store[id].questionCount > 0
          /\ store[id].hintsUsed > 0
          /\ store[id].pauseTime # None

-----------------------------------------------------------------------------
(* Pausing.                                                                *)

Paused == HasActiveSession /\ CurrentSession.pauseTime # None

\* C6: while a session is paused an AskQuestion fails with a 400 and appends
\* nothing to the log; once the session is resumed the same AskQuestion
\* succeeds (budget permitting).
QuestionsRefusedWhilePaused ==
    [][ \A question \in Env.questions, llm \in Env.answerReplies :
          WellFormed(question) /\ AskQuestion(question, llm) =>
            /\ Paused =>
                  /\ response'.status = 400
                  /\ store' = store
            /\ ( /\ HasActiveSession
                 /\ ~Paused
                 /\ ~BudgetExhausted(CurrentSession) ) =>
                  /\ response'.status = 200
                  /\ Len(store'[currentGameSessionId].questions)
                        = Len(CurrentSession.questions) + 1
      ]_vars

\* C7: PauseGame(pause = true) on a session that is paused already fails
\* with a 400 and leaves pauseTime and startTime unchanged.
SecondPauseRefused ==
    [][ Paused /\ PauseGame(TRUE) =>
          /\ response'.status = 400
          /\ store'[currentGameSessionId].pauseTime = CurrentSession.pauseTime
          /\ store'[currentGameSessionId].startTime = CurrentSession.startTime
      ]_vars

\* C8: a pause/resume cycle moves startTime forward by the length of the
\* pause, so that for a session that is running (resumed, or never paused)
\* now - startTime is the total time during which it was not paused.
ElapsedTimeExcludesPauses ==
    HasActiveSession /\ ~Paused => now - CurrentSession.startTime = playedMs

\* C9: while pauseTime is set, the elapsed game time GetStatistics reports
\* for the current session does not advance with the clock: it is the
\* elapsed time at the moment of the pause.
PausedClockStandsStill ==
    [][ Paused /\ GetStatistics =>
          response'.body.currentGame.gameTimeInSeconds
            = (CurrentSession.pauseTime[1] - CurrentSession.startTime)
                \div MsPerSecond
      ]_vars

-----------------------------------------------------------------------------
(* Stopping.                                                               *)

\* C11: StopGame on a current session ends it without judging a guess (the
\* result carries no verdict), and the result of the stop reveals the
\* session's secret word.
StopRevealsTheWord ==
    [][ HasActiveSession /\ StopGame =>
          /\ ~store'[currentGameSessionId].active
          /\ currentGameSessionId' = Null
          /\ response'.status = 200
          /\ "correct" \notin DOMAIN response'.body
          /\ "word" \in DOMAIN response'.body
          /\ response'.body.word = CurrentSession.word
      ]_vars

-----------------------------------------------------------------------------
(* The LLM replies vary: calls fail, the answerer rejects a question, and  *)
(* requests carry blank texts.  One game, a few questions.                 *)

\* gemini.ts: the answer the prompt of simulateHumanAnswerGemini prescribes
\* for a question that is not a yes/no question.
yesNoRejection == "Please ask a yes/no question"

EnvReplies ==
    [startRequests   |-> { StartRequest(mode, "animal", "easy", llmConfig) :
                             mode \in {"v1", "v2"},
                             llmConfig \in {NoConfig, GeminiConfig} },
     wordReplies     |-> { LLMFailure,
                           WordReply("Owl", "animal", "easy", Some(<<>>)) },
     randoms         |-> {0},
     idSuffixes      |-> {0},
     questions       |-> {"Is it alive?", "Is it an OWL?", " "},
     answerReplies   |-> {TextReply(yesNoRejection), LLMFailure},
     llmConfigs      |-> {NoConfig, GeminiConfig},
     guesses         |-> {"owl", " "},
     judgeReplies    |-> {JudgeReply(FALSE), LLMFailure},
     questionsPerGame |-> QuestionsPerGame]

NextReplies ==
    \/ \E req \in EnvReplies.startRequests, llm \in EnvReplies.wordReplies,
          rnd \in EnvReplies.randoms, suffix \in EnvReplies.idSuffixes :
            FreshId(suffix) /\ StartGame(req, llm, rnd, suffix) /\ ServerAlone
    \/ \E question \in EnvReplies.questions, llm \in EnvReplies.answerReplies :
            /\ MaySendQuestion(EnvReplies.questionsPerGame)
            /\ AskQuestion(question, llm)
            /\ ServerAlone
    \/ \E question \in EnvReplies.questions, llmConfig \in EnvReplies.llmConfigs,
          llm \in EnvReplies.answerReplies :
            /\ MaySendQuestion(EnvReplies.questionsPerGame)
            /\ LLMAnswerTurn(question, llmConfig, llm)
            /\ ServerAlone
    \/ \E guess \in EnvReplies.guesses, llm \in EnvReplies.judgeReplies :
            MakeGuess(guess, llm) /\ ServerAlone

SpecReplies == Init /\ [][NextReplies]_vars

\* C12: in an llm-asks session, an LLMAnswerTurn whose answer is the fixed
\* rejection "Please ask a yes/no question" appends no entry to the
\* questions log and does not increment questionCount.
RejectedQuestionNotCounted ==
    [][ \A question \in EnvReplies.questions,
           llmConfig \in EnvReplies.llmConfigs,
           llm \in EnvReplies.answerReplies :
          ( /\ HasActiveSession
            /\ CurrentSession.gameMode = "v2"
            /\ LLMAnswerTurn(question, llmConfig, llm)
            /\ response'.status = 200
            /\ response'.body.answer = yesNoRejection )
          => /\ store'[currentGameSessionId].questions = CurrentSession.questions
             /\ store'[currentGameSessionId].questionCount
                   = CurrentSession.questionCount
      ]_vars

\* A text that is empty once trimmed.
Blank(text) == trim(text) = ""

\* C13: an AskQuestion whose question is empty after trimming, and a
\* MakeGuess whose guess is empty after trimming, are rejected with a
\* validation error (a 400, whatever the LLM would have replied) and leave
\* the session, the store and the current-session pointer unchanged.
BlankInputRejected ==
    [][ /\ \A question \in EnvReplies.questions, llm \in EnvReplies.answerReplies :
              Blank(question) /\ AskQuestion(question, llm) =>
                  /\ response'.status = 400
                  /\ UNCHANGED <<store, currentGameSessionId>>
        /\ \A guess \in EnvReplies.guesses, llm \in EnvReplies.judgeReplies :
              Blank(guess) /\ MakeGuess(guess, llm) =>
                  /\ response'.status = 400
                  /\ UNCHANGED <<store, currentGameSessionId>>
      ]_vars

-----------------------------------------------------------------------------
(* Game modes.                                                             *)

\* An LLM turn request: llm-question, answer-llm or llm-guess.
LLMTurn(env) ==
    \/ \E llmConfig \in env.llmConfigs, llm \in env.questionReplies :
          LLMQuestionTurn(llmConfig, llm)
    \/ \E question \in env.questions, llmConfig \in env.llmConfigs,
          llm \in env.answerReplies :
          LLMAnswerTurn(question, llmConfig, llm)
    \/ \E llmConfig \in env.llmConfigs, llmGuess \in env.guessReplies,
          llmJudge \in env.judgeReplies :
          LLMGuessTurn(llmConfig, llmGuess, llmJudge)

\* C14: LLMQuestionTurn, LLMAnswerTurn and LLMGuessTurn on a current
\* session of mode human-asks (v1) fail with an error (a 400) and leave
\* questionCount, the questions log, the active flag (the whole store) and
\* the current-session pointer unchanged.
LLMTurnsRefusedInV1 ==
    [][ ( /\ HasActiveSession
          /\ CurrentSession.gameMode = "v1"
          /\ LLMTurn(Env) )
        => /\ response'.status = 400
           /\ UNCHANGED <<store, currentGameSessionId>>
      ]_vars

\* An LLM turn has just been refused on a human-asks game under way.
LLMTurnRefusedInV1Game ==
    /\ HasActiveSession
    /\ CurrentSession.gameMode = "v1"
    /\ CurrentSession.questionCount > 0
    /\ response = WrongMode

\* C15: in every reachable state every entry of the questions log of an
\* llm-asks (v2) session is marked as asked by the LLM, and no entry of a
\* human-asks (v1) session is; AskQuestion, in particular, appends no
\* unmarked entry to an llm-asks session.
LogEntriesMatchTheMode ==
    \A id \in DOMAIN store :
        \A i \in 1..Len(store[id].questions) :
            store[id].questions[i].isLLMQuestion <=> store[id].gameMode = "v2"

-----------------------------------------------------------------------------
(* The guess judges.  Games are started on every secret word over a small  *)
(* alphabet, by either word selector, and a guess is judged by either      *)
(* judge, whatever its LLM call yields.                                    *)

\* What the judge's LLM call yields when it succeeds: correct is the verdict
\* of the JSON reply checkFinalGuess parses, content the text of the reply
\* checkFinalGuessGemini returns as feedback (a judge reads its own field).
VerdictReply(correct, content) ==
    [ok |-> TRUE, correct |-> correct, content |-> content]

\* An upper-case letter, a lower-case letter, a punctuation mark, a space.
JudgeAlphabet == {"A", "b", "!", " "}

RECURSIVE StringsOfLen(_)
StringsOfLen(n) ==
    IF n = 0 THEN {""}
    ELSE { c \o rest : c \in JudgeAlphabet, rest \in StringsOfLen(n - 1) }

JudgeWords == UNION { StringsOfLen(n) : n \in 1..MaxWordLen }

EnvJudge ==
    [startRequests |-> { StartRequest(mode, "place", "easy", llmConfig) :
                           mode \in {"v1", "v2"},
                           llmConfig \in {NoConfig, GeminiConfig} },
     wordReplies   |-> { WordReply(word, "place", "easy", Some(<<>>)) :
                           word \in JudgeWords },
     randoms       |-> {0},
     idSuffixes    |-> {0},
     llmConfigs    |-> {NoConfig, GeminiConfig},
     guesses       |-> {"Ab", "ab!", " a  B ", "b", "!"},
     judgeReplies  |-> { VerdictReply(TRUE, "Well played."),
                         VerdictReply(FALSE, " "),
                         LLMFailure }]

NextJudge ==
    \/ \E req \in EnvJudge.startRequests, llm \in EnvJudge.wordReplies,
          rnd \in EnvJudge.randoms, suffix \in EnvJudge.idSuffixes :
            FreshId(suffix) /\ StartGame(req, llm, rnd, suffix) /\ ServerAlone
    \/ \E guess \in EnvJudge.guesses, llm \in EnvJudge.judgeReplies :
            MakeGuess(guess, llm) /\ ServerAlone
    \/ \E llmConfig \in EnvJudge.llmConfigs, guess \in EnvJudge.guesses,
          llmJudge \in EnvJudge.judgeReplies :
            LLMGuessTurn(llmConfig, TextReply(guess), llmJudge) /\ ServerAlone

SpecJudge == Init /\ [][NextJudge]_vars

\* A guess has just been judged: the guess handler, with the judge's LLM
\* call yielding llm.
GuessJudgedByHandler(guess, llm) ==
    /\ HasActiveSession
    /\ MakeGuess(guess, llm)
    /\ response'.status = 200

\* The LLM's own guess has just been judged by the judge llmConfig selects.
GuessJudgedInLLMTurn(llmConfig, guess, llm) ==
    /\ HasActiveSession
    /\ LLMGuessTurn(llmConfig, TextReply(guess), llm)
    /\ response'.status = 200

\* C16: a guess whose normalization (lower case, trim, punctuation
\* stripped, whitespace collapsed) equals that of the secret word is judged
\* correct, whatever the LLM answers and whether or not its call fails.
NormalizedMatchIsCorrect ==
    [][ /\ \A guess \in EnvJudge.guesses, llm \in EnvJudge.judgeReplies :
              ( /\ GuessJudgedByHandler(guess, llm)
                /\ normalizeText(guess) = normalizeText(CurrentSession.word) )
              => response'.body.correct = TRUE
        /\ \A llmConfig \in EnvJudge.llmConfigs, guess \in EnvJudge.guesses,
              llm \in EnvJudge.judgeReplies :
              ( /\ GuessJudgedInLLMTurn(llmConfig, guess, llm)
                /\ normalizeText(guess) = normalizeText(CurrentSession.word) )
              => response'.body.correct = TRUE
      ]_vars

\* C17: when the normalized guess differs from the normalized word and the
\* LLM call succeeds, the correct flag is the LLM's verdict, with the OpenAI
\* judge and with the Gemini judge.
LLMVerdictDecides ==
    [][ /\ \A guess \in EnvJudge.guesses, llm \in EnvJudge.judgeReplies :
              ( /\ GuessJudgedByHandler(guess, llm)
                /\ llm.ok
                /\ normalizeText(guess) # normalizeText(CurrentSession.word) )
              => response'.body.correct = llm.correct
        /\ \A llmConfig \in EnvJudge.llmConfigs, guess \in EnvJudge.guesses,
              llm \in EnvJudge.judgeReplies :
              ( /\ GuessJudgedInLLMTurn(llmConfig, guess, llm)
                /\ llm.ok
                /\ normalizeText(guess) # normalizeText(CurrentSession.word) )
              => response'.body.correct = llm.correct
      ]_vars

\* The comparison a judge falls back on: checkFinalGuess compares the
\* lower-cased, trimmed texts, checkFinalGuessGemini the normalized ones.
ExactMatch(useGemini, word, guess) ==
    IF useGemini
    THEN normalizeText(word) = normalizeText(guess)
    ELSE trim(toLowerCase(guess)) = trim(toLowerCase(word))

\* The feedback a judge gives for a win when its LLM call fails.
WinTemplates(word) ==
    { winFeedback(word), "Congratulations! You correctly guessed the word!" }

\* What C18 asks of a verdict.
WellFormedVerdict(body, useGemini, word, guess, llm) ==
    /\ body.correct \in BOOLEAN
    /\ body.feedback # ""
    /\ ~llm.ok =>
          /\ body.correct = ExactMatch(useGemini, word, guess)
          /\ body.feedback \in WinTemplates(word) <=> body.correct

\* C18: whatever the LLM call yields, the judge returns a boolean correct
\* flag and a non-empty feedback; when the call fails, correct is the exact
\* match of guess and word and the feedback is the win template iff correct.
JudgeAlwaysAnswers ==
    [][ /\ \A guess \in EnvJudge.guesses, llm \in EnvJudge.judgeReplies :
              GuessJudgedByHandler(guess, llm) =>
                  WellFormedVerdict(response'.body, FALSE,
                                    CurrentSession.word, guess, llm)
        /\ \A llmConfig \in EnvJudge.llmConfigs, guess \in EnvJudge.guesses,
              llm \in EnvJudge.judgeReplies :
              GuessJudgedInLLMTurn(llmConfig, guess, llm) =>
                  WellFormedVerdict(response'.body,
                                    llmConfig.answerer = "gemini",
                                    CurrentSession.word, guess, llm)
      ]_vars

\* C19: the judges' normalizers are idempotent on every text they are
\* applied to, the secret words (every string over the alphabet up to
\* MaxWordLen) and the guesses: normalizeText(normalizeText(s)) =
\* normalizeText(s), and likewise for the lower-case-and-trim of
\* checkFinalGuess.
NormalizeIdempotent ==
    LET Idempotent(text) ==
            /\ normalizeText(normalizeText(text)) = normalizeText(text)
            /\ trim(toLowerCase(trim(toLowerCase(text)))) = trim(toLowerCase(text))
    IN  /\ \A id \in DOMAIN store : Idempotent(store[id].word)
        /\ "guess" \in DOMAIN response.body => Idempotent(response.body.guess)

\* A word in upper and lower case with punctuation has been normalized and
\* matched by the Gemini judge, its LLM call failing.
MixedWordNormalized ==
    /\ \E id \in DOMAIN store : store[id].word = "Ab!" /\ ~store[id].active
    /\ response = Ok([guess    |-> "Ab",
                      correct  |-> TRUE,
                      feedback |-> "Congratulations! You correctly guessed the word!",
                      word     |-> "Ab!"])

-----------------------------------------------------------------------------
(* Failing LLM calls.                                                      *)

startsWith(s, prefix) ==
    Len(s) >= Len(prefix) /\ SubSeq(s, 1, Len(prefix)) = prefix

\* The answer an answerer is to fall back on: affirmative when the question
\* contains the word, whatever the case, and negative when it does not.
HedgeFor(answer, word, question) ==
    IF includes(toLowerCase(question), toLowerCase(word))
    THEN startsWith(answer, "Yes")
    ELSE startsWith(answer, "No")

\* C21: when the answerer's LLM call fails, the answer is the affirmative
\* hedge (it begins with "Yes") if the question contains the secret word,
\* case-insensitively, and the negative hedge (it begins with "No")
\* otherwise, with every answerer: answerQuestion and answerQuestionGemini
\* on a question asked by the player, simulateHumanAnswer and
\* simulateHumanAnswerGemini on a question of the LLM.
FallbackAnswersAreHedges ==
    [][ HasActiveSession =>
          /\ \A question \in EnvReplies.questions :
                ( /\ WellFormed(question)
                  /\ AskQuestion(question, LLMFailure)
                  /\ response'.status = 200 )
                => /\ HedgeFor(response'.body.answer,
                               CurrentSession.word, question)
                   /\ HedgeFor(answerQuestionGemini(CurrentSession.word,
                                                    question, LLMFailure),
                               CurrentSession.word, question)
          /\ \A question \in EnvReplies.questions,
                llmConfig \in EnvReplies.llmConfigs :
                ( /\ LLMAnswerTurn(question, llmConfig, LLMFailure)
                  /\ response'.status = 200 )
                => HedgeFor(response'.body.answer, CurrentSession.word, question)
      ]_vars

-----------------------------------------------------------------------------
(* The questioner without its LLM: an llm-asks game in which the calls of   *)
(* the questioner fail, and each question the server returns is sent back  *)
(* to be answered and recorded, as the auto-play client does.              *)

MaxFallbackTurns == 11
MaxUsableReplies == 1

\* openai.ts generateQuestion: the question returned when every question of the
\* fallback list is in the history
catchAllQuestion == "Is it something people use daily?"

EnvQuestioner ==
    [startRequests   |-> { StartRequest("v2", "animal", "easy", NoConfig) },
     wordReplies     |-> { WordReply("Owl", "animal", "easy", Some(<<>>)) },
     randoms         |-> {0},
     idSuffixes      |-> {0},
     questionReplies |-> {LLMFailure, TextReply("IS IT EDIBLE?")},
     answerReplies   |-> {TextReply("No")},
     llmConfigs      |-> {NoConfig, GeminiConfig},
     usableReplies   |-> MaxUsableReplies,
     questionsPerGame |-> MaxFallbackTurns]

\* The questions of a session's log that are no fallback of either questioner:
\* they came from a call of the LLM that succeeded.
QuestionsOfTheLLM(session) ==
    { i \in 1..Len(session.questions) :
        /\ session.questions[i].question # "Is it a living thing?"
        /\ session.questions[i].question # catchAllQuestion
        /\ \A j \in 1..Len(fallbackQuestions) :
              session.questions[i].question # fallbackQuestions[j] }

\* The questioner's LLM call succeeds at most usableReplies times in a game.
MayReplyUsably(llm, usableReplies) ==
    (llm.ok /\ HasActiveSession)
        => Cardinality(QuestionsOfTheLLM(CurrentSession)) < usableReplies

\* The response to the last request is a question of /api/game/llm-question.
QuestionReturned ==
    /\ response.status = 200
    /\ DOMAIN response.body = {"question", "questionCount"}

NextQuestioner ==
    \/ \E req \in EnvQuestioner.startRequests, llm \in EnvQuestioner.wordReplies,
          rnd \in EnvQuestioner.randoms, suffix \in EnvQuestioner.idSuffixes :
            FreshId(suffix) /\ StartGame(req, llm, rnd, suffix) /\ ServerAlone
    \/ \E llmConfig \in EnvQuestioner.llmConfigs,
          llm \in EnvQuestioner.questionReplies :
            /\ ~QuestionReturned
            /\ MaySendQuestion(EnvQuestioner.questionsPerGame)
            /\ MayReplyUsably(llm, EnvQuestioner.usableReplies)
            /\ LLMQuestionTurn(llmConfig, llm)
            /\ ServerAlone
    \/ \E llmConfig \in EnvQuestioner.llmConfigs,
          llm \in EnvQuestioner.answerReplies :
            /\ QuestionReturned
            /\ LLMAnswerTurn(response.body.question, llmConfig, llm)
            /\ ServerAlone

SpecQuestioner == Init /\ [][NextQuestioner]_vars

\* The questions of the fallback list that the history does not hold,
\* whatever the case, in list order.
NotYetAsked(previousQuestions) ==
    SelectSeq(fallbackQuestions,
              LAMBDA q : \A i \in 1..Len(previousQuestions) :
                  toLowerCase(previousQuestions[i].question) # toLowerCase(q))

\* C22: when the questioner's LLM call fails, the question returned is the
\* first question of the ten-question fallback list that the history does
\* not hold (compared case-insensitively), so no question of the history is
\* repeated until the list is exhausted; once it is exhausted the catch-all
\* question is returned; the request never fails.  With both questioners,
\* generateQuestion and generateQuestionGemini.
FallbackQuestionsNeverRepeat ==
    [][ (HasActiveSession /\ IsV2(CurrentSession)
           /\ ~BudgetExhausted(CurrentSession)) =>
          \A llmConfig \in EnvQuestioner.llmConfigs :
              LLMQuestionTurn(llmConfig, LLMFailure)
              => LET previousQuestions == CurrentSession.questions
                     remaining == NotYetAsked(previousQuestions)
                 IN  /\ response'.status = 200
                     /\ IF Len(remaining) > 0
                        THEN /\ response'.body.question = remaining[1]
                             /\ \A i \in 1..Len(previousQuestions) :
                                   toLowerCase(previousQuestions[i].question)
                                     # toLowerCase(response'.body.question)
                        ELSE response'.body.question = catchAllQuestion
      ]_vars

-----------------------------------------------------------------------------
(* Starting a game: every category, both word selectors, and the replies   *)
(* an LLM can give to the word prompt: a failed call, a well-formed word,  *)
(* a reply without a word or with a blank one, a reply without hints or    *)
(* with fewer than three.  The server runs in development or in            *)
(* production.                                                             *)

HintsPerWord == 3

owlHints == << "It is a bird", "It is awake at night", "It hoots" >>

EnvStart ==
    [startRequests   |-> { StartRequest("v1", category, "easy", llmConfig) :
                             category \in { categories[i] : i \in DOMAIN categories }
                                            \cup {Undefined},
                             llmConfig \in {NoConfig, GeminiConfig} },
     wordReplies     |-> { LLMFailure,
                           WordReply("Owl", "animal", "easy", Some(owlHints)),
                           WordReply(Undefined, "animal", "easy", Some(owlHints)),
                           WordReply("", "animal", "easy", Some(owlHints)),
                           WordReply(" ", "animal", "easy", Some(owlHints)),
                           WordReply("Owl", "animal", "easy", None),
                           WordReply("Owl", "animal", "easy", Some(<<"It hoots">>)) },
     randoms         |-> {0, 1},
     idSuffixes      |-> {0}]

\* process.env.NODE_ENV is set before the server starts.
InitStart ==
    /\ store = [id \in {} |-> Null]
    /\ currentGameSessionId = Null
    /\ now = StartClock
    /\ nodeEnv \in {"development", "production"}
    /\ response = NoResponse
    /\ playedMs = 0
    /\ ClientInit

NextStart ==
    \/ \E req \in EnvStart.startRequests, llm \in EnvStart.wordReplies,
          rnd \in EnvStart.randoms, suffix \in EnvStart.idSuffixes :
            FreshId(suffix) /\ StartGame(req, llm, rnd, suffix) /\ ServerAlone
    \/ RequestHint /\ ServerAlone
    \/ StopGame /\ ServerAlone

SpecStart == InitStart /\ [][NextStart]_vars

\* C23: whatever the LLM replies to the word prompt (a well-formed word, no
\* word field or an empty one, an unparseable reply, a failed call), and
\* with either provider, the word selector returns a non-empty string: no
\* session is created with an empty or undefined secret word.
SecretWordNeverEmpty ==
    \A id \in DOMAIN store :
        /\ store[id].word # Undefined
        /\ store[id].word # ""

\* C24: every word the word selector returns carries exactly three hints,
\* whatever the LLM replies (a reply without a hints field included) and in
\* the failure fallback: a session always has a hints array of length 3.
EveryWordHasThreeHints ==
    \A id \in DOMAIN store : Len(store[id].hints) = HintsPerWord

\* The words of the fallback table for a category.
FallbackWordsOf(category) ==
    { fallbackWords[category][i] : i \in DOMAIN fallbackWords[category] }

\* C25: when the LLM call of the word selector fails and the request names a
\* category of the six, the word selected is an entry of the fallback table
\* for that category and the category returned is that category, with the
\* OpenAI and with the Gemini word selector.
FallbackWordOfTheCategory ==
    [][ \A req \in EnvStart.startRequests, rnd \in EnvStart.randoms,
           suffix \in EnvStart.idSuffixes :
          ( /\ req.category \in DOMAIN fallbackWords
            /\ FreshId(suffix)
            /\ StartGame(req, LLMFailure, rnd, suffix) )
          => /\ store'[currentGameSessionId'].word \in FallbackWordsOf(req.category)
             /\ store'[currentGameSessionId'].category = req.category
      ]_vars

\* C26: in production the response to StartGame does not depend on the
\* secret word: a StartGame that differs only in the word and the hints
\* selected (same request, hence same mode; same category and difficulty
\* selected) is answered with the same response.
ProductionStartHidesTheWord ==
    [][ \A req \in EnvStart.startRequests, llm \in EnvStart.wordReplies,
           rnd \in EnvStart.randoms, suffix \in EnvStart.idSuffixes :
          ( /\ nodeEnv = "production"
            /\ FreshId(suffix)
            /\ StartGame(req, llm, rnd, suffix) )
          => \A otherLLM \in EnvStart.wordReplies, otherRnd \in EnvStart.randoms :
               LET this  == wordDataFor(req, llm, rnd)
                   other == wordDataFor(req, otherLLM, otherRnd)
               IN  ( /\ other.category = this.category
                     /\ other.difficulty = this.difficulty )
                   => startResponse(nodeEnv, Default(req.gameMode, "v1"), other)
                        = response'
      ]_vars

\* A game started in production with a word that is not the only one the
\* selector could have returned for the request.
StartedInProduction ==
    /\ nodeEnv = "production"
    /\ HasActiveSession
    /\ CurrentSession.word = "owl"
    /\ CurrentSession.hintsUsed = 0
    /\ response.status = 200
    /\ "success" \in DOMAIN response.body
    /\ response.body.category = "animal"
    /\ \E req \in EnvStart.startRequests, llm \in EnvStart.wordReplies,
          rnd \in EnvStart.randoms :
          LET other == wordDataFor(req, llm, rnd)
          IN  /\ other.word \notin {"owl", Undefined}
              /\ other.category = "animal"
              /\ other.difficulty = CurrentSession.difficulty

-----------------------------------------------------------------------------
(* The browser client.  A client action is what the user or the auto-play  *)
(* timer does, the request it sends handled by the server, and the         *)
(* client's handling of the response.  An async function of LLMvsLLMMode   *)
(* is one action per request it awaits; llmMode.call holds the call in     *)
(* progress, with the values its closure captured.                         *)

\* Math.round(numerator / denominator), for numerator >= 0 and denominator > 0
MathRound(numerator, denominator) ==
    (2 * numerator + denominator) \div (2 * denominator)

\* The stats of makeGuessMutation.onSuccess and of handleLLMGameEnd, which
\* compute them alike from the count of questions the client holds.
updatedStats(stats, correct, questionCount, completionTime) ==
    [gamesPlayed      |-> stats.gamesPlayed + 1,
     gamesWon         |-> IF correct THEN stats.gamesWon + 1 ELSE stats.gamesWon,
     averageQuestions |->
         MathRound(stats.averageQuestions * stats.gamesPlayed + questionCount,
                   stats.gamesPlayed + 1),
     bestScore        |-> IF correct /\ questionCount < stats.bestScore
                          THEN questionCount ELSE stats.bestScore,
     completionTimes  |-> Append(stats.completionTimes, completionTime)]

\* Math.floor((Date.now() - (prev.gameStartTime || 0)) / 1000)
completionTime(prev, t) == (t - prev.gameStartTime) \div MsPerSecond

\* startGameMutation.onSuccess: a fresh game state that keeps the stats
newGameState(data, llmConfig, stats, t) ==
    [questionCount |-> 0,
     isGameActive  |-> TRUE,
     gameMode      |-> data.gameMode,
     gameResult    |-> Null,
     gameStartTime |-> t,
     isPaused      |-> FALSE,
     llmConfig     |-> llmConfig,
     stats         |-> stats]

\* The state LLMvsLLMMode is mounted with.  call is the call of
\* getNextLLMQuestion or makeLLMFinalGuess in progress (isLoading).
mountedLLMMode ==
    [mounted       |-> TRUE,
     questions     |-> <<>>,
     isGameActive  |-> TRUE,
     questionCount |-> 0,
     call          |-> None]

\* {gameState.gameMode === "v2" && <LLMvsLLMMode .../>}: the component is
\* mounted when the mode becomes v2, keeps its state while the mode stays v2,
\* and is unmounted when the mode becomes v1.
rendered(component, gameMode) ==
    IF gameMode = "v2"
    THEN IF component.mounted THEN component ELSE mountedLLMMode
    ELSE Unmounted

\* A game that ended: the session's questionCount when it ended, the count
\* the client held for it, and how it ended.
EndedGame(session, reported, won, endedBy) ==
    [questionCount |-> session.questionCount,
     reported      |-> reported,
     won           |-> won,
     endedBy       |-> endedBy]

\* handleStartNewGame: startGameMutation.mutate() and its onSuccess
handleStartNewGame(settings, category, llm, rnd, suffix) ==
    /\ StartGame(StartRequest(settings.gameMode, category, settings.difficulty,
                              settings.llmConfig), llm, rnd, suffix)
    /\ gameState' = newGameState(response'.body, settings.llmConfig,
                                 gameState.stats, now)
    /\ finalGuessMode' = FALSE
    /\ llmMode' = rendered(llmMode, response'.body.gameMode)
    /\ UNCHANGED <<games, inflight>>

\* handleAskQuestion: askQuestionMutation.mutate(question) and its onSuccess
\* (a response that is not 2xx runs onError, which changes nothing).  The
\* input and the button are those of the v1 layout.
handleAskQuestion(input, llm) ==
    /\ gameState.gameMode = "v1"
    /\ gameState.isGameActive
    /\ ~gameState.isPaused
    /\ ~finalGuessMode
    /\ trim(input) # ""
    /\ AskQuestion(trim(input), llm)
    /\ IF response'.status = 200
       THEN /\ gameState' = [gameState EXCEPT !.questionCount = @ + 1]
            /\ finalGuessMode' = (gameState.questionCount >= 19)
       ELSE UNCHANGED <<gameState, finalGuessMode>>
    /\ UNCHANGED <<llmMode, games, inflight>>

\* handleFinalGuess: makeGuessMutation.mutate(guess) and its onSuccess
handleFinalGuess(input, llm) ==
    /\ gameState.gameMode = "v1"
    /\ gameState.isGameActive
    /\ ~gameState.isPaused
    /\ finalGuessMode
    /\ trim(input) # ""
    /\ MakeGuess(trim(input), llm)
    /\ IF response'.status = 200
       THEN /\ gameState' =
                 [gameState EXCEPT
                    !.isGameActive = FALSE,
                    !.gameResult = IF response'.body.correct THEN "win" ELSE "lose",
                    !.stats = updatedStats(@, response'.body.correct,
                                           gameState.questionCount,
                                           completionTime(gameState, now))]
            /\ games' = Append(games, EndedGame(CurrentSession,
                                                gameState.questionCount,
                                                response'.body.correct, "guess"))
       ELSE UNCHANGED <<gameState, games>>
    /\ UNCHANGED <<finalGuessMode, llmMode, inflight>>

\* handleStopGame: the Stop button of the v1 layout
handleStopGame ==
    /\ gameState.gameMode = "v1"
    /\ gameState.isGameActive
    /\ StopGame
    /\ gameState' = [gameState EXCEPT !.isGameActive = FALSE,
                                      !.gameResult = Null]
    /\ games' = IF HasActiveSession
                THEN Append(games, EndedGame(CurrentSession,
                                             gameState.questionCount,
                                             FALSE, "stop"))
                ELSE games
    /\ UNCHANGED <<finalGuessMode, llmMode, inflight>>

\* handleLLMGameEnd(result)
handleLLMGameEnd(prev, result, t) ==
    [prev EXCEPT
       !.isGameActive = FALSE,
       !.gameResult = IF result.correct THEN "win" ELSE "lose",
       !.questionCount = result.questionCount,
       !.stats = updatedStats(@, result.correct, result.questionCount,
                              completionTime(prev, t))]

\* if (isLoading || questionCount >= 20 || !isGameActive || isPaused) return;
MayGetNextQuestion ==
    /\ llmMode.mounted
    /\ llmMode.call = None
    /\ llmMode.questionCount < MaxQuestions
    /\ llmMode.isGameActive
    /\ ~gameState.isPaused

\* getNextLLMQuestion, up to the response of /api/game/llm-question.  The
\* server has no /api/game/assess-readiness route: the assessment call is
\* rejected and its catch yields readyToGuess: false.  A response that is
\* not 2xx ends the call in its catch block.
getNextLLMQuestion(llm) ==
    /\ MayGetNextQuestion
    /\ LLMQuestionTurn(gameState.llmConfig, llm)
    /\ llmMode' =
         IF response'.status = 200
         THEN [llmMode EXCEPT !.call = Some([awaits    |-> "answer-llm",
                                             question  |-> response'.body.question,
                                             questions |-> llmMode.questions])]
         ELSE llmMode
    /\ UNCHANGED <<gameState, finalGuessMode, games, inflight>>

\* The call of getNextLLMQuestion awaits the response of /api/game/answer-llm
AwaitsAnswer ==
    /\ llmMode.mounted
    /\ llmMode.call # None
    /\ llmMode.call[1].awaits = "answer-llm"

\* The call of makeLLMFinalGuess that getNextLLMQuestion made at the 20th
\* question has its request to send
AwaitsGuess ==
    /\ llmMode.mounted
    /\ llmMode.call # None
    /\ llmMode.call[1].awaits = "llm-guess"

\* getNextLLMQuestion, from the request to /api/game/answer-llm on:
\* setQuestions, setQuestionCount, and the call of makeLLMFinalGuess at 20
\* questions, whose closure holds the questions of the render the call of
\* getNextLLMQuestion started in.
getNextLLMAnswer(llm) ==
    /\ AwaitsAnswer
    /\ LLMAnswerTurn(llmMode.call[1].question, gameState.llmConfig, llm)
    /\ llmMode' =
         IF response'.status = 200
         THEN [llmMode EXCEPT
                 !.questions = Append(@, [text   |-> response'.body.question,
                                          answer |-> response'.body.answer]),
                 !.questionCount = response'.body.questionCount,
                 !.call = IF response'.body.questionCount >= MaxQuestions
                          THEN Some([awaits    |-> "llm-guess",
                                     questions |-> llmMode.call[1].questions])
                          ELSE None]
         ELSE [llmMode EXCEPT !.call = None]
    /\ UNCHANGED <<gameState, finalGuessMode, games, inflight>>

\* makeLLMFinalGuess in a closure whose questions are the given ones: the
\* request to /api/game/llm-guess, setIsGameActive(false) and
\* onGameEnd({...response, questionCount: questions.length})
makeLLMFinalGuess(questions, llmGuess, llmJudge) ==
    /\ LLMGuessTurn(gameState.llmConfig, llmGuess, llmJudge)
    /\ IF response'.status = 200
       THEN /\ llmMode' = [llmMode EXCEPT !.isGameActive = FALSE,
                                          !.call = None]
            /\ gameState' =
                 handleLLMGameEnd(gameState,
                                  [correct       |-> response'.body.correct,
                                   questionCount |-> Len(questions)], now)
            /\ games' = Append(games, EndedGame(CurrentSession, Len(questions),
                                                response'.body.correct,
                                                "llm-guess"))
       ELSE /\ llmMode' = [llmMode EXCEPT !.call = None]
            /\ UNCHANGED <<gameState, games>>
    /\ UNCHANGED <<finalGuessMode, inflight>>

\* handleSkipToEnd: the Skip to End button
\* (disabled={isLoading || !isGameActive || isPaused})
handleSkipToEnd(llmGuess, llmJudge) ==
    /\ llmMode.mounted
    /\ llmMode.call = None
    /\ llmMode.isGameActive
    /\ ~gameState.isPaused
    /\ makeLLMFinalGuess(llmMode.questions, llmGuess, llmJudge)

\* if (answerResponse.questionCount >= 20) makeLLMFinalGuess()
guessAtTwentyQuestions(llmGuess, llmJudge) ==
    /\ AwaitsGuess
    /\ makeLLMFinalGuess(llmMode.call[1].questions, llmGuess, llmJudge)

MaxStarts == 3
MaxEarly == 1

\* The user plays MaxStarts games in either mode.  A guess is right or wrong.
\* The user stops a game, starts a new one over a game, or skips to the end,
\* early only: the game has been asked MaxEarly questions at most.
EnvClient ==
    [settings      |-> { [gameMode |-> mode, difficulty |-> "easy",
                          llmConfig |-> OpenAIConfig] : mode \in {"v1", "v2"} },
     categories    |-> {"animal"},
     wordReplies   |-> { WordReply("Owl", "animal", "easy", Some(owlHints)) },
     randoms       |-> {0},
     starts        |-> MaxStarts,
     early         |-> MaxEarly,
     inputs        |-> {" Is it alive? "},
     answerReplies |-> {TextReply("Yes")},
     questionReplies |-> {TextReply("Is it alive?")},
     guesses       |-> {"owl", "cat"},
     guessReplies  |-> {TextReply("owl"), TextReply("cat")},
     judgeReplies  |-> {JudgeReply(FALSE)}]

\* The game on the server is at its start: few questions asked, or none.
Early(early) ==
    HasActiveSession => CurrentSession.questionCount <= early

\* No call of the LLMvsLLMMode component is in progress.
NoCallInProgress == llmMode.mounted => llmMode.call = None

NextClient ==
    \/ \E settings \in EnvClient.settings, category \in EnvClient.categories,
          llm \in EnvClient.wordReplies, rnd \in EnvClient.randoms :
            /\ Cardinality(DOMAIN store) < EnvClient.starts
            /\ Early(EnvClient.early)
            /\ NoCallInProgress
            /\ handleStartNewGame(settings, category, llm, rnd,
                                  Cardinality(DOMAIN store))
    \/ \E input \in EnvClient.inputs, llm \in EnvClient.answerReplies :
            handleAskQuestion(input, llm)
    \/ \E input \in EnvClient.guesses, llm \in EnvClient.judgeReplies :
            handleFinalGuess(input, llm)
    \/ Early(EnvClient.early) /\ handleStopGame
    \/ \E llm \in EnvClient.questionReplies : getNextLLMQuestion(llm)
    \/ \E llm \in EnvClient.answerReplies : getNextLLMAnswer(llm)
    \/ \E llmGuess \in EnvClient.guessReplies, llmJudge \in EnvClient.judgeReplies :
            Early(EnvClient.early) /\ handleSkipToEnd(llmGuess, llmJudge)
    \/ \E llmGuess \in EnvClient.guessReplies, llmJudge \in EnvClient.judgeReplies :
            guessAtTwentyQuestions(llmGuess, llmJudge)

SpecClient == Init /\ [][NextClient]_vars

\* The games that ended and were won.
GamesWon == { i \in DOMAIN games : games[i].won }

\* C27: in the client's statistics every game that ends, by MakeGuess, by
\* LLMGuessTurn or by StopGame, adds one to gamesPlayed; gamesWon is raised
\* iff the game was won; a stopped game counts as played and not won; and
\* gamesWon <= gamesPlayed.
StatsCountEveryGame ==
    /\ gameState.stats.gamesPlayed = Len(games)
    /\ gameState.stats.gamesWon = Cardinality(GamesWon)
    /\ gameState.stats.gamesWon <= gameState.stats.gamesPlayed

\* The games that ended with a guess: the ones the client's statistics count.
GamesGuessed == SelectSeq(games, LAMBDA game : game.endedBy # "stop")

\* The sum of the question counts the client held for the games.
RECURSIVE TotalReported(_)
TotalReported(played) ==
    IF Len(played) = 0 THEN 0
    ELSE Head(played).reported + TotalReported(Tail(played))

\* C28: after any sequence of completed games, averageQuestions is the mean
\* of those games' question counts, rounded to the nearest integer.  Stated
\* for the games the statistics count (the ones ended by a guess) and for
\* the question counts the client held when they ended.
AverageIsTheRoundedMean ==
    gameState.stats.averageQuestions =
        IF Len(GamesGuessed) = 0 THEN 0
        ELSE MathRound(TotalReported(GamesGuessed), Len(GamesGuessed))

\* The least number of a set of numbers.
Least(numbers) == CHOOSE n \in numbers : \A m \in numbers : n <= m

\* C29: after any sequence of completed games, bestScore is the least
\* questionCount of the sessions of the games that were won, and 20 when no
\* game has been won.
BestScoreIsTheLeastWin ==
    gameState.stats.bestScore =
        IF GamesWon = {} THEN 20
        ELSE Least({ games[i].questionCount : i \in GamesWon })

\* C38: when an LLM-vs-LLM game ends, the questionCount the client reports
\* with the result, and feeds into the statistics, is the questionCount of
\* the server's session when the final guess was judged, also when the guess
\* is the one made on reaching the 20th question.
LLMGameReportsTheServerCount ==
    \A i \in DOMAIN games :
        games[i].endedBy = "llm-guess"
            => games[i].reported = games[i].questionCount

\* C39: in human-asks mode the client is in final-guess mode exactly from
\* the moment its questionCount becomes 19, that is, after the 19th answered
\* question.
FinalGuessModeAtNineteen ==
    (gameState.gameMode = "v1" /\ gameState.isGameActive)
        => (finalGuessMode <=> gameState.questionCount >= MaxQuestions - 1)

-----------------------------------------------------------------------------
(* Requests that overlap.  A handler that awaits an LLM call runs up to    *)
(* the await, and other requests are handled before the reply resumes it.  *)
(* storage.getGameSession returns the session object of the store itself,  *)
(* so what a resumed handler reads and writes through its session is the   *)
(* session of that id in the store.                                        *)

MaxInFlight == 2

\* The requests the client sends, none of them through the browser state
\* modelled above.
NoClient == UNCHANGED <<gameState, finalGuessMode, llmMode, games>>

\* A request awaiting its LLM call, with the session it read before.
Pending(slot, op, question, llmConfig) ==
    [slot      |-> slot,
     op        |-> op,
     sessionId |-> currentGameSessionId,
     question  |-> question,
     llmConfig |-> llmConfig]

FreeSlots == (1..MaxInFlight) \ { request.slot : request \in inflight }

\* A request answered before it awaits an LLM call.
RefuseAtOnce(reply) ==
    /\ RespondOnly(reply)
    /\ UNCHANGED inflight

\* The handler suspends at its await.
Suspend(request) ==
    /\ inflight' = inflight \cup {request}
    /\ UNCHANGED <<store, currentGameSessionId, response, playedMs>>

\* POST /api/game/ask, up to: const answer = await answerQuestion(...)
BeginAskQuestion(slot, question) ==
    /\ UNCHANGED <<now, nodeEnv>>
    /\ IF ~TruthyString(question)
       THEN RefuseAtOnce(BadRequest("Question is required"))
       ELSE IF ~HasActiveSession
       THEN RefuseAtOnce(NoActiveSession)
       ELSE IF BudgetExhausted(store[currentGameSessionId])
       THEN RefuseAtOnce(MaxQuestionsReached)
       ELSE Suspend(Pending(slot, "ask", question, NoConfig))

\* POST /api/game/ask, from the reply of answerQuestion on
CompleteAskQuestion(request, llm) ==
    /\ request.op = "ask"
    /\ UNCHANGED <<now, nodeEnv>>
    /\ inflight' = inflight \ {request}
    /\ LET session == store[request.sessionId] IN
       IF session.word = Undefined /\ ~Usable(llm)
       THEN RespondOnly(ServerError("Failed to process question"))
       ELSE LET answer == answerQuestion(session.word, request.question, llm) IN
            /\ store' = setGameSession(store,
                   recordQuestion(session, request.question, answer, FALSE))
            /\ response' = Ok([question |-> request.question, answer |-> answer])
            /\ UNCHANGED <<currentGameSessionId, playedMs>>

\* POST /api/game/answer-llm, up to: answer = await simulateHumanAnswer(...)
BeginLLMAnswerTurn(slot, question, llmConfig) ==
    /\ UNCHANGED <<now, nodeEnv>>
    /\ IF ~TruthyString(question)
       THEN RefuseAtOnce(BadRequest("Question is required"))
       ELSE IF ~HasActiveSession
       THEN RefuseAtOnce(NoActiveSession)
       ELSE IF ~IsV2(store[currentGameSessionId])
       THEN RefuseAtOnce(WrongMode)
       ELSE IF BudgetExhausted(store[currentGameSessionId])
       THEN RefuseAtOnce(MaxQuestionsReached)
       ELSE Suspend(Pending(slot, "answer-llm", question, llmConfig))

\* POST /api/game/answer-llm, from the reply of the answerer on
CompleteLLMAnswerTurn(request, llm) ==
    /\ request.op = "answer-llm"
    /\ UNCHANGED <<now, nodeEnv>>
    /\ inflight' = inflight \ {request}
    /\ LET session   == store[request.sessionId]
           useGemini == /\ TruthyString(request.llmConfig.answerer)
                        /\ request.llmConfig.answerer = "gemini"
       IN
       IF ~useGemini /\ session.word = Undefined /\ ~Usable(llm)
       THEN RespondOnly(ServerError("Failed to process question"))
       ELSE LET answer == IF useGemini
                          THEN simulateHumanAnswerGemini(session.word,
                                                         request.question, llm)
                          ELSE simulateHumanAnswer(session.word,
                                                   request.question, llm)
            IN
            /\ store' = setGameSession(store,
                   recordQuestion(session, request.question, answer, TRUE))
            /\ response' = Ok([question      |-> request.question,
                               answer        |-> answer,
                               questionCount |-> session.questionCount + 1])
            /\ UNCHANGED <<currentGameSessionId, playedMs>>

\* Up to MaxInFlight questions are outstanding at a time, against one game
\* that is sent questions until one is refused.
EnvConcurrent ==
    [startRequests   |-> { StartRequest(mode, "animal", "easy", NoConfig) :
                             mode \in {"v1", "v2"} },
     wordReplies     |-> { WordReply("Owl", "animal", "easy", Some(owlHints)) },
     randoms         |-> {0},
     idSuffixes      |-> {0},
     questions       |-> {"Is it alive?"},
     answerReplies   |-> {TextReply("Yes")},
     llmConfigs      |-> {NoConfig},
     directAsks      |-> MaxDirectAsks]

\* The /api/game/ask requests awaiting their LLM call.
AsksInFlight == { request \in inflight : request.op = "ask" }

\* At most directAsks AskQuestion requests go to one llm-asks session.
MayBeginAsk(directAsks) ==
    HasActiveSession /\ CurrentSession.gameMode = "v2"
        => DirectAsks(CurrentSession) + Cardinality(AsksInFlight) < directAsks

NextConcurrent ==
    \/ \E req \in EnvConcurrent.startRequests, llm \in EnvConcurrent.wordReplies,
          rnd \in EnvConcurrent.randoms, suffix \in EnvConcurrent.idSuffixes :
            /\ FreshId(suffix)
            /\ StartGame(req, llm, rnd, suffix)
            /\ UNCHANGED inflight
            /\ NoClient
    \/ \E slot \in FreeSlots, question \in EnvConcurrent.questions :
            /\ MayBeginAsk(EnvConcurrent.directAsks)
            /\ BeginAskQuestion(slot, question)
            /\ NoClient
    \/ \E request \in inflight, llm \in EnvConcurrent.answerReplies :
            CompleteAskQuestion(request, llm) /\ NoClient
    \/ \E slot \in FreeSlots, question \in EnvConcurrent.questions,
          llmConfig \in EnvConcurrent.llmConfigs :
            BeginLLMAnswerTurn(slot, question, llmConfig) /\ NoClient
    \/ \E request \in inflight, llm \in EnvConcurrent.answerReplies :
            CompleteLLMAnswerTurn(request, llm) /\ NoClient

SpecConcurrent == Init /\ [][NextConcurrent]_vars

\* C30: however the AskQuestion and LLMAnswerTurn requests outstanding
\* against one session interleave (each checks questionCount < 20, awaits
\* the LLM, then increments), the session's questionCount never exceeds 20.
BudgetKeptUnderConcurrency ==
    \A id \in DOMAIN store : store[id].questionCount <= MaxQuestions

-----------------------------------------------------------------------------
(* The sessions of the store.                                              *)

\* C36: at every time at most one session of the store is active: when
\* StartGame replaces a current session that is still active, the session
\* replaced does not stay active in the store.
AtMostOneActiveSession ==
    Cardinality({ id \in DOMAIN store : store[id].active }) <= 1

\* What is selected for a session when it is created.
Selected(session) ==
    [word       |-> session.word,
     category   |-> session.category,
     difficulty |-> session.difficulty,
     gameMode   |-> session.gameMode,
     hints      |-> session.hints]

\* C37: no operation changes the word, category, difficulty, gameMode or
\* hints list of a session that exists: AskQuestion, RequestHint, PauseGame,
\* LLMQuestionTurn, LLMAnswerTurn, MakeGuess, LLMGuessTurn and StopGame
\* leave them as StartGame selected them, and the word a guess reveals is
\* the word of the session guessed.
SelectionNeverChanges ==
    [][ /\ \A id \in DOMAIN store :
              /\ id \in DOMAIN store'
              /\ Selected(store'[id]) = Selected(store[id])
        /\ \A guess \in Env.guesses, llm \in Env.judgeReplies :
              (HasActiveSession /\ MakeGuess(guess, llm) /\ response'.status = 200)
              => response'.body.word = CurrentSession.word
        /\ \A llmConfig \in Env.llmConfigs, llmGuess \in Env.guessReplies,
              llmJudge \in Env.judgeReplies :
              ( /\ HasActiveSession
                /\ LLMGuessTurn(llmConfig, llmGuess, llmJudge)
                /\ response'.status = 200 )
              => response'.body.word = CurrentSession.word
      ]_vars

\* A game that was asked a question, given a hint and paused, and whose guess
\* revealed the word selected.
WordRevealedAfterPlay ==
    /\ response.status = 200
    /\ DOMAIN response.body = {"correct", "feedback", "word"}
    /\ \E id \in DOMAIN store :
          /\ ~store[id].active
          /\ store[id].word = response.body.word
          /\ store[id].questionCount > 0
          /\ store[id].hintsUsed > 0
          /\ store[id].pauseTime # None
          /\ Len(store[id].hints) = HintsPerWord


-----------------------------------------------------------------------------
(* Guesses, questions and restarts that overlap.  The handlers of          *)
(* /api/game/guess and /api/game/llm-guess check the session, await the    *)
(* LLM, and only then end the session and clear the pointer; a stop, a     *)
(* start or another guess may be handled while they wait.  The awaits of   *)
(* the storage settle without I/O, so nothing is handled in between them   *)
(* and the statement that follows.                                         *)

\* Whether checkFinalGuess returns on its exact match, before any LLM call.
MatchesExactly(word, guess) ==
    trim(toLowerCase(guess)) = trim(toLowerCase(word))

\* POST /api/game/guess, up to: result = await checkFinalGuess(...), when
\* checkFinalGuess goes on to its LLM call
BeginMakeGuess(slot, guess) ==
    /\ UNCHANGED <<now, nodeEnv>>
    /\ IF ~TruthyString(guess)
       THEN RefuseAtOnce(BadRequest("Guess is required"))
       ELSE IF ~HasActiveSession
       THEN RefuseAtOnce(NoActiveSession)
       ELSE LET session == store[currentGameSessionId] IN
            IF session.word = Undefined
            THEN RefuseAtOnce(ServerError("Failed to process guess"))
            ELSE IF MatchesExactly(session.word, guess)
            THEN \* no LLM call: the handler runs to its end
                 /\ store' = endGameSession(store, session.id)
                 /\ currentGameSessionId' = Null
                 /\ response' = Ok([correct  |-> TRUE,
                                    feedback |-> winFeedback(session.word),
                                    word     |-> session.word])
                 /\ UNCHANGED <<playedMs, inflight>>
            ELSE Suspend(Pending(slot, "guess", guess, NoConfig))

\* POST /api/game/guess, from the reply of the judge on
CompleteMakeGuess(request, llm) ==
    /\ request.op = "guess"
    /\ UNCHANGED <<now, nodeEnv>>
    /\ inflight' = inflight \ {request}
    /\ LET session == store[request.sessionId]
           result  == checkFinalGuess(session.word, request.question, llm)
       IN
       /\ store' = endGameSession(store, session.id)
       /\ currentGameSessionId' = Null
       /\ response' = Ok([correct  |-> result.correct,
                          feedback |-> result.feedback,
                          word     |-> session.word])
       /\ UNCHANGED playedMs

\* POST /api/game/llm-guess, up to: guess = await makeGuess(...)
BeginLLMGuessTurn(slot, llmConfig) ==
    /\ UNCHANGED <<now, nodeEnv>>
    /\ IF ~HasActiveSession
       THEN RefuseAtOnce(NoActiveSession)
       ELSE IF ~IsV2(store[currentGameSessionId])
       THEN RefuseAtOnce(WrongMode)
       ELSE Suspend(Pending(slot, "llm-guess", "", llmConfig))

\* POST /api/game/llm-guess, from the reply of makeGuess on (the guess is
\* judged as soon as it is made)
CompleteLLMGuessTurn(request, llmGuess, llmJudge) ==
    /\ request.op = "llm-guess"
    /\ UNCHANGED <<now, nodeEnv>>
    /\ inflight' = inflight \ {request}
    /\ LET session == store[request.sessionId]
           given   == /\ TruthyString(request.llmConfig.questioner)
                      /\ TruthyString(request.llmConfig.answerer)
           guess   == IF given /\ request.llmConfig.questioner = "gemini"
                      THEN makeGuessGemini(session.questions, llmGuess)
                      ELSE makeGuess(session.questions, llmGuess)
           result  == IF given /\ request.llmConfig.answerer = "gemini"
                      THEN checkFinalGuessGemini(session.word, guess, llmJudge)
                      ELSE checkFinalGuess(session.word, guess, llmJudge)
       IN
       IF session.word = Undefined
       THEN RespondOnly(ServerError("Failed to process guess"))
       ELSE /\ store' = endGameSession(store, session.id)
            /\ currentGameSessionId' = Null
            /\ response' = Ok([guess    |-> guess,
                               correct  |-> result.correct,
                               feedback |-> result.feedback,
                               word     |-> session.word])
            /\ UNCHANGED playedMs

\* Two games at most, one possibly started while requests of the other are
\* awaiting their LLM calls; up to MaxInFlight requests are outstanding.
EnvOverlap ==
    [startRequests   |-> { StartRequest(mode, "animal", "easy", NoConfig) :
                             mode \in {"v1", "v2"} },
     wordReplies     |-> { WordReply("Owl", "animal", "easy", Some(owlHints)) },
     randoms         |-> {0},
     idSuffixes      |-> {0, 1},
     questions       |-> {"Is it alive?"},
     answerReplies   |-> {TextReply("Yes")},
     llmConfigs      |-> {NoConfig},
     guessReplies    |-> {TextReply("owl")},
     guesses         |-> {"cat", "owl"},
     judgeReplies    |-> {JudgeReply(FALSE)},
     directAsks      |-> MaxDirectAsks,
     questionsPerGame |-> QuestionsPerGame]

\* The environment stops sending questions to a game once its log and the
\* questions outstanding make up questionsPerGame.
MayBeginQuestion(questionsPerGame) ==
    HasActiveSession
        => Len(CurrentSession.questions) + Cardinality(AsksInFlight)
              < questionsPerGame

\* Starts, hints, questions and guesses, up to MaxInFlight of them awaiting
\* their LLM calls.
OverlappingRequests ==
    \/ \E req \in EnvOverlap.startRequests, llm \in EnvOverlap.wordReplies,
          rnd \in EnvOverlap.randoms, suffix \in EnvOverlap.idSuffixes :
            /\ FreshId(suffix)
            /\ StartGame(req, llm, rnd, suffix)
            /\ UNCHANGED inflight
            /\ NoClient
    \/ RequestHint /\ UNCHANGED inflight /\ NoClient
    \/ \E slot \in FreeSlots, question \in EnvOverlap.questions :
            /\ MayBeginAsk(EnvOverlap.directAsks)
            /\ MayBeginQuestion(EnvOverlap.questionsPerGame)
            /\ BeginAskQuestion(slot, question)
            /\ NoClient
    \/ \E request \in inflight, llm \in EnvOverlap.answerReplies :
            CompleteAskQuestion(request, llm) /\ NoClient
    \/ \E slot \in FreeSlots, guess \in EnvOverlap.guesses :
            BeginMakeGuess(slot, guess) /\ NoClient
    \/ \E request \in inflight, llm \in EnvOverlap.judgeReplies :
            CompleteMakeGuess(request, llm) /\ NoClient
    \/ \E slot \in FreeSlots, llmConfig \in EnvOverlap.llmConfigs :
            BeginLLMGuessTurn(slot, llmConfig) /\ NoClient
    \/ \E request \in inflight, llmGuess \in EnvOverlap.guessReplies,
          llmJudge \in EnvOverlap.judgeReplies :
            CompleteLLMGuessTurn(request, llmGuess, llmJudge) /\ NoClient

\* The game is ended by guesses only.
NextGuesses == OverlappingRequests

SpecGuesses == Init /\ [][NextGuesses]_vars

\* The game may also be stopped while requests are awaiting.
NextOverlap ==
    \/ OverlappingRequests
    \/ StopGame /\ UNCHANGED inflight /\ NoClient

SpecOverlap == Init /\ [][NextOverlap]_vars

\* C31: once the active flag of a session is false, no field of the session
\* changes again, however the requests interleave: a question or a hint
\* request outstanding when the game is stopped or guessed does not append
\* to the log or change questionCount or hintsUsed afterwards.
EndedSessionsAreFrozen ==
    [][ \A id \in DOMAIN store :
           ~store[id].active => id \in DOMAIN store' /\ store'[id] = store[id]
      ]_vars

\* The requests answered by a step: those that were awaiting and are not any more.
Answered == inflight \ inflight'

\* C32: the pointer to the current session is cleared only on behalf of the
\* session it points to: a MakeGuess or LLMGuessTurn for a session that
\* completes after StartGame made another session current leaves that
\* session current and playable.
PointerClearedForItsSessionOnly ==
    [][ \A request \in Answered :
           (currentGameSessionId # Null /\ currentGameSessionId' = Null)
           => request.sessionId = currentGameSessionId
      ]_vars

\* C33: a session receives at most one guess verdict, however MakeGuess and
\* LLMGuessTurn requests interleave: where guesses alone end a session, the
\* guess that is judged finds the session active (no verdict was given on
\* it before), and every other one fails with NoActiveSession.
OneVerdictPerSession ==
    [][ \A request \in Answered :
           ( /\ request.op \in {"guess", "llm-guess"}
             /\ response'.status = 200 )
           => store[request.sessionId].active
      ]_vars


-----------------------------------------------------------------------------
(* Auto-play.  The effect of LLMvsLLMMode sets an interval whose callback  *)
(* calls the getNextLLMQuestion of the render the effect ran in; the       *)
(* effect runs again, with the closure of a later render, only when one of *)
(* autoPlay, isGameActive, isPaused, questionCount has changed.  The calls *)
(* of getNextLLMQuestion and makeLLMFinalGuess in progress are in          *)
(* inflight, each with the request it awaits.  The state updates an async  *)
(* function makes between two awaits are rendered together.                *)

MaxAutoPlayGames == 2

\* What the functions of one render read of the component's state and props.
closure(component, isPaused) ==
    [isLoading     |-> component.isLoading,
     questionCount |-> component.questionCount,
     isGameActive  |-> component.isGameActive,
     isPaused      |-> isPaused,
     questions     |-> component.questions]

\* The dependencies of the effect: [autoPlay, isGameActive, isPaused, questionCount]
effectDeps(component, isPaused) ==
    <<component.autoPlay, component.isGameActive, isPaused, component.questionCount>>

\* The effect: if (autoPlay && isGameActive && !isPaused && questionCount < 20)
\* intervalId = setInterval(() => getNextLLMQuestion(), autoPlaySpeed)
autoPlayEffect(component, isPaused) ==
    IF /\ component.autoPlay
       /\ component.isGameActive
       /\ ~isPaused
       /\ component.questionCount < MaxQuestions
    THEN Some(closure(component, isPaused))
    ELSE None

\* A render after state updates: the interval is cleared and the effect runs
\* again when a dependency has changed, and the interval set stays otherwise.
render(before, after, isPaused) ==
    IF effectDeps(after, isPaused) # effectDeps(before, isPaused)
    THEN [after EXCEPT !.interval = autoPlayEffect(after, isPaused)]
    ELSE after

\* LLMvsLLMMode when it is mounted: its initial state, and the effect has run.
mountedAutoPlay ==
    LET initial == [mounted       |-> TRUE,
                    questions     |-> <<>>,
                    isGameActive  |-> TRUE,
                    isLoading     |-> FALSE,
                    questionCount |-> 0,
                    autoPlay      |-> TRUE,
                    interval      |-> None]
    IN  [initial EXCEPT !.interval = autoPlayEffect(initial, FALSE)]

\* {gameState.gameMode === "v2" && <LLMvsLLMMode .../>}, as rendered above
renderedAutoPlay(component, gameMode) ==
    IF gameMode = "v2"
    THEN IF component.mounted THEN component ELSE mountedAutoPlay
    ELSE Unmounted

\* handleStartNewGame for a game the LLMs play
startAutoPlayGame(settings, category, llm, rnd, suffix) ==
    /\ StartGame(StartRequest(settings.gameMode, category, settings.difficulty,
                              settings.llmConfig), llm, rnd, suffix)
    /\ gameState' = newGameState(response'.body, settings.llmConfig,
                                 gameState.stats, now)
    /\ finalGuessMode' = FALSE
    /\ llmMode' = renderedAutoPlay(llmMode, response'.body.gameMode)
    /\ UNCHANGED <<games, inflight>>

\* A call of getNextLLMQuestion or makeLLMFinalGuess awaiting a response,
\* with the questions of its closure.
Call(slot, op, question, questions) ==
    [slot |-> slot, op |-> op, question |-> question, questions |-> questions]

\* if (isLoading || questionCount >= 20 || !isGameActive || isPaused) return;
\* as the function of one render evaluates it
MayGetNextQuestionIn(captured) ==
    ~(\/ captured.isLoading
      \/ captured.questionCount >= MaxQuestions
      \/ ~captured.isGameActive
      \/ captured.isPaused)

\* The interval fires: getNextLLMQuestion of the interval's closure, up to
\* its request to /api/game/llm-question
autoPlayTick(slot) ==
    /\ llmMode.mounted
    /\ llmMode.interval # None
    /\ IF MayGetNextQuestionIn(llmMode.interval[1])
       THEN /\ llmMode' = [llmMode EXCEPT !.isLoading = TRUE]
            /\ inflight' = inflight \cup
                  {Call(slot, "llm-question", "", llmMode.interval[1].questions)}
       ELSE UNCHANGED <<llmMode, inflight>>
    /\ UNCHANGED <<store, currentGameSessionId, now, nodeEnv, response, playedMs,
                   gameState, finalGuessMode, games>>

\* getNextLLMQuestion, from the response of /api/game/llm-question up to the
\* request to /api/game/answer-llm; a response that is not 2xx runs the catch
\* block and finally setIsLoading(false)
receiveLLMQuestion(call, llm) ==
    /\ call.op = "llm-question"
    /\ LLMQuestionTurn(gameState.llmConfig, llm)
    /\ IF response'.status = 200
       THEN /\ inflight' = (inflight \ {call}) \cup
                  {Call(call.slot, "answer-llm", response'.body.question,
                        call.questions)}
            /\ UNCHANGED llmMode
       ELSE /\ inflight' = inflight \ {call}
            /\ llmMode' = [llmMode EXCEPT !.isLoading = FALSE]
    /\ UNCHANGED <<gameState, finalGuessMode, games>>

\* getNextLLMQuestion, from the response of /api/game/answer-llm on:
\* setQuestions, setQuestionCount, makeLLMFinalGuess() at 20 questions (which
\* runs up to its request), and finally setIsLoading(false)
receiveLLMAnswer(call, llm) ==
    /\ call.op = "answer-llm"
    /\ LLMAnswerTurn(call.question, gameState.llmConfig, llm)
    /\ IF response'.status = 200
       THEN /\ llmMode' =
                 render(llmMode,
                        [llmMode EXCEPT
                           !.questions = Append(@, [text   |-> response'.body.question,
                                                    answer |-> response'.body.answer]),
                           !.questionCount = response'.body.questionCount,
                           !.isLoading = FALSE],
                        gameState.isPaused)
            /\ inflight' = (inflight \ {call}) \cup
                  IF response'.body.questionCount >= MaxQuestions
                  THEN {Call(call.slot, "llm-guess", "", call.questions)}
                  ELSE {}
       ELSE /\ llmMode' = [llmMode EXCEPT !.isLoading = FALSE]
            /\ inflight' = inflight \ {call}
    /\ UNCHANGED <<gameState, finalGuessMode, games>>

\* makeLLMFinalGuess, from the response of /api/game/llm-guess on:
\* setIsGameActive(false), onGameEnd({...response, questionCount:
\* questions.length}), and finally setIsLoading(false)
receiveLLMGuess(call, llmGuess, llmJudge) ==
    /\ call.op = "llm-guess"
    /\ LLMGuessTurn(gameState.llmConfig, llmGuess, llmJudge)
    /\ inflight' = inflight \ {call}
    /\ IF response'.status = 200
       THEN /\ llmMode' = render(llmMode,
                                 [llmMode EXCEPT !.isGameActive = FALSE,
                                                 !.isLoading = FALSE],
                                 gameState.isPaused)
            /\ gameState' =
                 handleLLMGameEnd(gameState,
                                  [correct       |-> response'.body.correct,
                                   questionCount |-> Len(call.questions)], now)
            /\ games' = Append(games, EndedGame(CurrentSession, Len(call.questions),
                                                response'.body.correct,
                                                "llm-guess"))
       ELSE /\ llmMode' = [llmMode EXCEPT !.isLoading = FALSE]
            /\ UNCHANGED <<gameState, games>>
    /\ UNCHANGED finalGuessMode

\* Games the LLMs play with auto-play on, never paused or stopped, each
\* started when the one before is over; every LLM call succeeds.  A turn may
\* take longer than the period of the interval: up to MaxInFlight calls are
\* in progress.
EnvAutoPlay ==
    [settings        |-> { [gameMode |-> "v2", difficulty |-> "easy",
                            llmConfig |-> OpenAIConfig] },
     categories      |-> {"animal"},
     wordReplies     |-> { WordReply("Owl", "animal", "easy", Some(owlHints)) },
     randoms         |-> {0},
     starts          |-> MaxAutoPlayGames,
     questionReplies |-> {TextReply("Is it alive?")},
     answerReplies   |-> {TextReply("Yes")},
     guessReplies    |-> {TextReply("owl"), TextReply("cat")},
     judgeReplies    |-> {JudgeReply(FALSE)}]

StartsAutoPlayGame ==
    \E settings \in EnvAutoPlay.settings, category \in EnvAutoPlay.categories,
       llm \in EnvAutoPlay.wordReplies, rnd \in EnvAutoPlay.randoms :
        /\ Cardinality(DOMAIN store) < EnvAutoPlay.starts
        /\ ~gameState.isGameActive
        /\ inflight = {}
        /\ startAutoPlayGame(settings, category, llm, rnd,
                             Cardinality(DOMAIN store))

IntervalFires == \E slot \in FreeSlots : autoPlayTick(slot)

QuestionArrives ==
    \E call \in inflight, llm \in EnvAutoPlay.questionReplies :
        receiveLLMQuestion(call, llm)

AnswerArrives ==
    \E call \in inflight, llm \in EnvAutoPlay.answerReplies :
        receiveLLMAnswer(call, llm)

VerdictArrives ==
    \E call \in inflight, llmGuess \in EnvAutoPlay.guessReplies,
       llmJudge \in EnvAutoPlay.judgeReplies :
        receiveLLMGuess(call, llmGuess, llmJudge)

NextAutoPlay ==
    \/ StartsAutoPlayGame
    \/ IntervalFires
    \/ QuestionArrives
    \/ AnswerArrives
    \/ VerdictArrives

SpecAutoPlay == Init /\ [][NextAutoPlay]_vars

\* The question turns in progress: llm-question sent, answer-llm not yet
\* answered.
QuestionTurnsInFlight ==
    { call \in inflight : call.op \in {"llm-question", "answer-llm"} }

\* C34: in the auto-play loop a tick of the interval starts a question turn
\* only if no earlier turn is outstanding, the game is active and it is not
\* paused, so that at most one question turn (llm-question followed by
\* answer-llm) is in flight at any time, also when a turn takes longer than
\* the period of the interval.
OneQuestionTurnAtATime ==
    Cardinality(QuestionTurnsInFlight) <= 1

\* The interval keeps firing while it is set, and every request is answered.
SpecAutoPlayFair ==
    /\ SpecAutoPlay
    /\ WF_vars(IntervalFires)
    /\ WF_vars(QuestionArrives)
    /\ WF_vars(AnswerArrives)
    /\ WF_vars(VerdictArrives)

\* The client's game is over, won or lost.
GameOver ==
    /\ ~gameState.isGameActive
    /\ gameState.gameResult \in {"win", "lose"}

\* C35: with auto-play on, no pause or stop, and every request succeeding,
\* a game of the LLMs eventually terminates: after at most 20 counted
\* questions the final guess is made and the client's game becomes inactive
\* with a win or lose result.
AutoPlayGameTerminates ==
    (gameState.isGameActive /\ gameState.gameMode = "v2") ~> GameOver

=============================================================================
